---- MODULE Spec2Model ----
(***************************************************************************)
(* RoboStripper: the document cleaning pipeline of src/robostripper.py.    *)
(*                                                                         *)
(* Texts are strings (sequences of characters); a character is a string    *)
(* of length one.  The character universe is ASCII plus the copyright      *)
(* sign, which is what the Pattern Library and the cleaning code name.     *)
(***************************************************************************)
EXTENDS Integers, Sequences, FiniteSets, TLC

\* ------------------------------------------------------------------------
\* Characters and the str methods the pipeline uses
\* ------------------------------------------------------------------------

LowerChars == "abcdefghijklmnopqrstuvwxyz"
UpperChars == "ABCDEFGHIJKLMNOPQRSTUVWXYZ"
DigitChars == "0123456789"

Char(s, i) == SubSeq(s, i, i)

CharsOf(s) == {Char(s, i) : i \in 1..Len(s)}

Lower == CharsOf(LowerChars)
Upper == CharsOf(UpperChars)
Digit == CharsOf(DigitChars)

\* \w of the re module
WordCh == Lower \cup Upper \cup Digit \cup {"_"}

\* \s of the re module and the characters str.strip() removes
Space == {" ", "\t", "\n", "\r", "\f"}

SetMin(S) == CHOOSE x \in S : \A y \in S : x <= y

\* The greatest element, as the least of the negated ones
SetMax(S) == 0 - SetMin({0 - x : x \in S})

LowerMap == [c \in Upper |-> Char(LowerChars, CHOOSE i \in 1..26 : Char(UpperChars, i) = c)]

ToLowerCh(c) == IF c \in Upper THEN LowerMap[c] ELSE c

RECURSIVE StrLowerRange(_, _, _)
StrLowerRange(s, lo, hi) ==
  IF lo > hi THEN ""
  ELSE IF lo = hi THEN ToLowerCh(Char(s, lo))
  ELSE StrLowerRange(s, lo, (lo + hi) \div 2) \o StrLowerRange(s, (lo + hi) \div 2 + 1, hi)

\* str.lower()
StrLower(s) == StrLowerRange(s, 1, Len(s))

\* str.strip()
Strip(s) ==
  LET keep == {i \in 1..Len(s) : Char(s, i) \notin Space}
  IN  IF keep = {} THEN "" ELSE SubSeq(s, SetMin(keep), SetMax(keep))

\* n copies of a text
RECURSIVE Repeat(_, _)
Repeat(unit, n) == IF n = 0 THEN "" ELSE unit \o Repeat(unit, n - 1)

\* str.isupper(): at least one cased character and no lower-case one
StrIsUpper(s) ==
  /\ \E i \in 1..Len(s) : Char(s, i) \in Upper
  /\ \A i \in 1..Len(s) : Char(s, i) \notin Lower

\* str.split('\n'), cutting at the line break nearest after the middle
RECURSIVE SplitLines(_)
SplitLines(s) ==
  LET nl == {i \in 1..Len(s) : Char(s, i) = "\n"}
      late == {i \in nl : 2 * i >= Len(s)}
      cut == IF late # {} THEN SetMin(late) ELSE SetMax(nl)
  IN  IF nl = {} THEN <<s>>
      ELSE SplitLines(SubSeq(s, 1, cut - 1)) \o SplitLines(SubSeq(s, cut + 1, Len(s)))

\* sep.join(parts)
RECURSIVE Join(_, _)
Join(parts, sep) ==
  IF parts = <<>> THEN ""
  ELSE IF Len(parts) = 1 THEN parts[1]
  ELSE LET half == Len(parts) \div 2
       IN  Join(SubSeq(parts, 1, half), sep) \o sep \o Join(SubSeq(parts, half + 1, Len(parts)), sep)

\* sub in s
Contains(s, sub) ==
  \E i \in 1..(Len(s) - Len(sub) + 1) : SubSeq(s, i, i + Len(sub) - 1) = sub

\* int(s) of a string of decimal digits
RECURSIVE StrToInt(_)
StrToInt(s) ==
  IF s = "" THEN 0
  ELSE 10 * StrToInt(SubSeq(s, 1, Len(s) - 1))
       + ((CHOOSE i \in 1..10 : Char(DigitChars, i) = Char(s, Len(s))) - 1)

\* ------------------------------------------------------------------------
\* Regular expressions (the re module), as syntax trees
\* ------------------------------------------------------------------------

Unbounded == -1

Chr(S) == [op |-> "set", set |-> S]
NotChr(S) == [op |-> "nset", set |-> S]
AnyCh == NotChr({"\n"})
Lit(w) == [op |-> "lit", w |-> w]
LitI(w) == [op |-> "liti", w |-> StrLower(w)]
Cat(args) == [op |-> "cat", args |-> args]
Alt(args) == [op |-> "alt", args |-> args]
Rep(r, lo, hi) == [op |-> "rep", arg |-> r, lo |-> lo, hi |-> hi]
Bol == [op |-> "bol"]
Eol == [op |-> "eol"]
WordB == [op |-> "wb"]

IsWordAt(s, i) == i >= 1 /\ i <= Len(s) /\ Char(s, i) \in WordCh

\* Ends(re, s, S): the positions at which a match of re that starts at a
\* position of S can end (position i is the gap before character i).
RECURSIVE Ends(_, _, _), CatEnds(_, _, _, _), RepEnds(_, _, _, _, _), StarEnds(_, _, _, _), RunStop(_, _, _)
Ends(re, s, S) ==
  IF S = {} THEN {}
  ELSE CASE re.op = "set" ->
              {i + 1 : i \in {j \in S : j <= Len(s) /\ Char(s, j) \in re.set}}
         [] re.op = "nset" ->
              {i + 1 : i \in {j \in S : j <= Len(s) /\ Char(s, j) \notin re.set}}
         [] re.op = "lit" ->
              {i + Len(re.w) : i \in {j \in S : /\ j + Len(re.w) - 1 <= Len(s)
                                                /\ SubSeq(s, j, j + Len(re.w) - 1) = re.w}}
         [] re.op = "liti" ->
              {i + Len(re.w) : i \in {j \in S : /\ j + Len(re.w) - 1 <= Len(s)
                                                /\ ToLowerCh(Char(s, j)) = Char(re.w, 1)
                                                /\ StrLower(SubSeq(s, j, j + Len(re.w) - 1)) = re.w}}
         [] re.op = "cat" -> CatEnds(re.args, 1, s, S)
         [] re.op = "alt" -> UNION {Ends(re.args[k], s, S) : k \in DOMAIN re.args}
         [] re.op = "rep" -> RepEnds(re.arg, re.lo, re.hi, s, S)
         [] re.op = "bol" -> S \cap {1}
         [] re.op = "eol" ->
              {i \in S : i = Len(s) + 1 \/ (i = Len(s) /\ Char(s, i) = "\n")}
         [] re.op = "wb" -> {i \in S : IsWordAt(s, i - 1) # IsWordAt(s, i)}

CatEnds(args, k, s, S) ==
  IF k > Len(args) THEN S ELSE CatEnds(args, k + 1, s, Ends(args[k], s, S))

\* Zero or more characters of one class: from each start, up to the first
\* character outside the class, which RunStop finds sixteen characters at a time
RunStop(r, s, i) ==
  LET hi == IF i + 15 < Len(s) THEN i + 15 ELSE Len(s)
      stops == {j \in i..hi : (Char(s, j) \in r.set) # (r.op = "set")}
  IN  IF stops # {} THEN SetMin(stops)
      ELSE IF hi = Len(s) THEN Len(s) + 1
      ELSE RunStop(r, s, hi + 1)

\* A start whose predecessor is a start inside the same run adds nothing
ClassRunEnds(r, s, S) ==
  LET leaders == {i \in S : ~(i - 1 \in S /\ ((Char(s, i - 1) \in r.set) = (r.op = "set")))}
  IN  UNION {i..RunStop(r, s, i) : i \in leaders}

RepEnds(r, lo, hi, s, S) ==
  IF S = {} THEN {}
  ELSE IF lo > 0 THEN RepEnds(r, lo - 1, IF hi = Unbounded THEN hi ELSE hi - 1, s, Ends(r, s, S))
  ELSE IF hi = Unbounded
  THEN IF r.op \in {"set", "nset"} THEN ClassRunEnds(r, s, S) ELSE StarEnds(r, s, S, S)
  ELSE IF hi = 0 \/ S = {} THEN S
  ELSE S \cup RepEnds(r, 0, hi - 1, s, Ends(r, s, S))

\* Zero or more r: S is what has been reached, fresh the part of it that r
\* has not been tried from yet
StarEnds(r, s, S, fresh) ==
  LET new == Ends(r, s, fresh) \ S
  IN  IF new = {} THEN S ELSE StarEnds(r, s, S \cup new, new)

\* pattern.search(s): a match starting anywhere
ReSearch(re, s) == Ends(re, s, 1..(Len(s) + 1)) # {}

\* re.match(pattern, s): a match starting at the start
ReMatch(re, s) == Ends(re, s, {1}) # {}

\* METADATA_PATTERNS: (name, compiled pattern, scope), in the order of the list
METADATA_PATTERNS ==
  <<
     \* This content downloaded from .+
     [name |-> "jstor_download", scope |-> "line",
      pattern |-> Cat(<<Lit("This content downloaded from "), Rep(AnyCh, 1, Unbounded)>>)],
     \* All use subject to https?://about\.jstor\.org/terms
     [name |-> "jstor_terms", scope |-> "line",
      pattern |-> Cat(<<Lit("All use subject to http"), Rep(Lit("s"), 0, 1), Lit("://about.jstor.org/terms")>>)],
     \* JSTOR is a not-for-profit service
     [name |-> "jstor_boilerplate", scope |-> "line",
      pattern |-> Lit("JSTOR is a not-for-profit service")],
     \* Stable URL:\s*https?://
     [name |-> "jstor_stable_url", scope |-> "line",
      pattern |-> Cat(<<Lit("Stable URL:"), Rep(Chr(Space), 0, Unbounded), Lit("http"), Rep(Lit("s"), 0, 1), Lit("://")>>)],
     \* Accessed:\s+\d{2}-\d{2}-\d{4}
     [name |-> "jstor_accessed", scope |-> "line",
      pattern |-> Cat(<<Lit("Accessed:"), Rep(Chr(Space), 1, Unbounded), Rep(Chr(Digit), 2, 2), Lit("-"), Rep(Chr(Digit), 2, 2), Lit("-"), Rep(Chr(Digit), 4, 4)>>)],
     \* is collaborating with JSTOR
     [name |-> "jstor_collab", scope |-> "line",
      pattern |-> Lit("is collaborating with JSTOR")],
     \* Linked references are available on JSTOR
     [name |-> "jstor_linked_refs", scope |-> "line",
      pattern |-> Lit("Linked references are available on JSTOR")],
     \* Your use of the JSTOR archive indicates
     [name |-> "jstor_your_use", scope |-> "line",
      pattern |-> Lit("Your use of the JSTOR archive indicates")],
     \* Copyright\s*©\s*\d{4}\.\s*.+\.\s*All rights reserved\.?
     [name |-> "proquest_copyright", scope |-> "line",
      pattern |-> Cat(<<Lit("Copyright"), Rep(Chr(Space), 0, Unbounded), Lit("©"), Rep(Chr(Space), 0, Unbounded), Rep(Chr(Digit), 4, 4), Lit("."), Rep(Chr(Space), 0, Unbounded), Rep(AnyCh, 1, Unbounded), Lit("."), Rep(Chr(Space), 0, Unbounded), Lit("All rights reserved"), Rep(Lit("."), 0, 1)>>)],
     \* Ebook pages \d+-\d+\s*\|\s*Printed page \d+ of \d+
     [name |-> "proquest_page_range", scope |-> "line",
      pattern |-> Cat(<<Lit("Ebook pages "), Rep(Chr(Digit), 1, Unbounded), Lit("-"), Rep(Chr(Digit), 1, Unbounded), Rep(Chr(Space), 0, Unbounded), Lit("|"), Rep(Chr(Space), 0, Unbounded), Lit("Printed page "), Rep(Chr(Digit), 1, Unbounded), Lit(" of "), Rep(Chr(Digit), 1, Unbounded)>>)],
     \* https?://ebookcentral\.proquest\.com/lib/.+
     [name |-> "proquest_url", scope |-> "line",
      pattern |-> Cat(<<Lit("http"), Rep(Lit("s"), 0, 1), Lit("://ebookcentral.proquest.com/lib/"), Rep(AnyCh, 1, Unbounded)>>)],
     \* Created from \w+ on \d{4}-\d{2}-\d{2} \d{2}:\d{2}:\d{2}
     [name |-> "proquest_created", scope |-> "line",
      pattern |-> Cat(<<Lit("Created from "), Rep(Chr(WordCh), 1, Unbounded), Lit(" on "), Rep(Chr(Digit), 4, 4), Lit("-"), Rep(Chr(Digit), 2, 2), Lit("-"), Rep(Chr(Digit), 2, 2), Lit(" "), Rep(Chr(Digit), 2, 2), Lit(":"), Rep(Chr(Digit), 2, 2), Lit(":"), Rep(Chr(Digit), 2, 2)>>)],
     \* ^.{10,}\.\s*ProQuest\s*(Ebook Central)?\.?\s*$
     [name |-> "proquest_citation", scope |-> "line",
      pattern |-> Cat(<<Bol, Rep(AnyCh, 10, Unbounded), Lit("."), Rep(Chr(Space), 0, Unbounded), Lit("ProQuest"), Rep(Chr(Space), 0, Unbounded), Rep(Lit("Ebook Central"), 0, 1), Rep(Lit("."), 0, 1), Rep(Chr(Space), 0, Unbounded), Eol>>)],
     \* EBSCO Publishing:\s*eBook Collection.+  (IGNORECASE)
     [name |-> "ebsco_header", scope |-> "line",
      pattern |-> Cat(<<LitI("EBSCO Publishing:"), Rep(Chr(Space), 0, Unbounded), LitI("eBook Collection"), Rep(AnyCh, 1, Unbounded)>>)],
     \* All use subject to https?://www\.ebsco\.com/terms-of-use
     [name |-> "ebsco_terms", scope |-> "line",
      pattern |-> Cat(<<Lit("All use subject to http"), Rep(Lit("s"), 0, 1), Lit("://www.ebsco.com/terms-of-use")>>)],
     \* All rights reserved\.\s*May not be reproduced
     [name |-> "ebsco_rights", scope |-> "line",
      pattern |-> Cat(<<Lit("All rights reserved."), Rep(Chr(Space), 0, Unbounded), Lit("May not be reproduced")>>)],
     \* Account:\s*\w+  (IGNORECASE)
     [name |-> "ebsco_account", scope |-> "line",
      pattern |-> Cat(<<LitI("Account:"), Rep(Chr(Space), 0, Unbounded), Rep(Chr(WordCh), 1, Unbounded)>>)],
     \* printed on \d{4}-\d{2}-\d{2}.*via\b  (IGNORECASE)
     [name |-> "ebsco_printed_on", scope |-> "line",
      pattern |-> Cat(<<LitI("printed on "), Rep(Chr(Digit), 4, 4), Lit("-"), Rep(Chr(Digit), 2, 2), Lit("-"), Rep(Chr(Digit), 2, 2), Rep(AnyCh, 0, Unbounded), LitI("via"), WordB>>)],
     \* Copyright of .+ is the property of .+
     [name |-> "ebsco_copyright_block", scope |-> "line",
      pattern |-> Cat(<<Lit("Copyright of "), Rep(AnyCh, 1, Unbounded), Lit(" is the property of "), Rep(AnyCh, 1, Unbounded)>>)],
     \* content may not be copied or emailed
     [name |-> "ebsco_content_may_not", scope |-> "line",
      pattern |-> Lit("content may not be copied or emailed")],
     \* copyright holder's express written permission
     [name |-> "ebsco_express_written", scope |-> "line",
      pattern |-> Lit("copyright holder's express written permission")],
     \* users may print, download, or email
     [name |-> "ebsco_users_may_print", scope |-> "line",
      pattern |-> Lit("users may print, download, or email")],
     \* Downloaded from https?://read\.dukeupress\.edu/.+
     [name |-> "duke_download", scope |-> "line",
      pattern |-> Cat(<<Lit("Downloaded from http"), Rep(Lit("s"), 0, 1), Lit("://read.dukeupress.edu/"), Rep(AnyCh, 1, Unbounded)>>)],
     \* by [A-Z\s]+ user$
     [name |-> "duke_user", scope |-> "line",
      pattern |-> Cat(<<Lit("by "), Rep(Chr(Upper \cup Space), 1, Unbounded), Lit(" user"), Eol>>)],
     \* ^\d{4}\.\s+.+(?:Press|Books|Publishing|Publishers)\b.+\.\s*$
     [name |-> "publisher_year_line", scope |-> "line",
      pattern |-> Cat(<<Bol, Rep(Chr(Digit), 4, 4), Lit("."), Rep(Chr(Space), 1, Unbounded), Rep(AnyCh, 1, Unbounded), Alt(<<Lit("Press"), Lit("Books"), Lit("Publishing"), Lit("Publishers")>>), WordB, Rep(AnyCh, 1, Unbounded), Lit("."), Rep(Chr(Space), 0, Unbounded), Eol>>)],
     \* WWW\.TANDFONLINE\.COM/\w+  (IGNORECASE)
     [name |-> "tf_url_footer", scope |-> "line",
      pattern |-> Cat(<<LitI("WWW.TANDFONLINE.COM/"), Rep(Chr(WordCh), 1, Unbounded)>>)],
     \* ^\d{4},\s*VOL\.\s*\d+,\s*NO\.\s*\d+  (IGNORECASE)
     [name |-> "tf_vol_issue", scope |-> "line",
      pattern |-> Cat(<<Bol, Rep(Chr(Digit), 4, 4), Lit(","), Rep(Chr(Space), 0, Unbounded), LitI("VOL."), Rep(Chr(Space), 0, Unbounded), Rep(Chr(Digit), 1, Unbounded), Lit(","), Rep(Chr(Space), 0, Unbounded), LitI("NO."), Rep(Chr(Space), 0, Unbounded), Rep(Chr(Digit), 1, Unbounded)>>)],
     \* ^\s*©\s*\d{4}\s+Taylor\s*&\s*Francis  (IGNORECASE)
     [name |-> "tf_copyright", scope |-> "line",
      pattern |-> Cat(<<Bol, Rep(Chr(Space), 0, Unbounded), Lit("©"), Rep(Chr(Space), 0, Unbounded), Rep(Chr(Digit), 4, 4), Rep(Chr(Space), 1, Unbounded), LitI("Taylor"), Rep(Chr(Space), 0, Unbounded), Lit("&"), Rep(Chr(Space), 0, Unbounded), LitI("Francis")>>)],
     \* ^\s*https?://doi\.org/.+$
     [name |-> "doi_line", scope |-> "line",
      pattern |-> Cat(<<Bol, Rep(Chr(Space), 0, Unbounded), Lit("http"), Rep(Lit("s"), 0, 1), Lit("://doi.org/"), Rep(AnyCh, 1, Unbounded), Eol>>)],
     \* ^CONTACT\s+.+@.+$  (IGNORECASE)
     [name |-> "contact_line", scope |-> "line",
      pattern |-> Cat(<<Bol, LitI("CONTACT"), Rep(Chr(Space), 1, Unbounded), Rep(AnyCh, 1, Unbounded), Lit("@"), Rep(AnyCh, 1, Unbounded), Eol>>)],
     \* eScholarship\.org\s*/?\s*Powered by the California Digital Library
     [name |-> "eschol_powered", scope |-> "line",
      pattern |-> Cat(<<Lit("eScholarship.org"), Rep(Chr(Space), 0, Unbounded), Rep(Lit("/"), 0, 1), Rep(Chr(Space), 0, Unbounded), Lit("Powered by the California Digital Library")>>)],
     \* Permalink:\s*https?://escholarship\.org/.+
     [name |-> "eschol_permalink", scope |-> "line",
      pattern |-> Cat(<<Lit("Permalink:"), Rep(Chr(Space), 0, Unbounded), Lit("http"), Rep(Lit("s"), 0, 1), Lit("://escholarship.org/"), Rep(AnyCh, 1, Unbounded)>>)],
     \* This Article is brought to you for free and open access by Chicago Unbound
     [name |-> "chicago_unbound", scope |-> "line",
      pattern |-> Lit("This Article is brought to you for free and open access by Chicago Unbound")],
     \* Follow this and additional works at:\s*https?://
     [name |-> "chicago_follow", scope |-> "line",
      pattern |-> Cat(<<Lit("Follow this and additional works at:"), Rep(Chr(Space), 0, Unbounded), Lit("http"), Rep(Lit("s"), 0, 1), Lit("://")>>)],
     \* ^\s*https?://\S+\s*$
     [name |-> "standalone_url", scope |-> "line",
      pattern |-> Cat(<<Bol, Rep(Chr(Space), 0, Unbounded), Lit("http"), Rep(Lit("s"), 0, 1), Lit("://"), Rep(NotChr(Space), 1, Unbounded), Rep(Chr(Space), 0, Unbounded), Eol>>)],
     \* Creative Commons Attribution.+License
     [name |-> "creative_commons_line", scope |-> "line",
      pattern |-> Cat(<<Lit("Creative Commons Attribution"), Rep(AnyCh, 1, Unbounded), Lit("License")>>)],
     \* ^\s*©\s*\d{4}.+All rights reserved\.?\s*$
     [name |-> "rights_reserved", scope |-> "line",
      pattern |-> Cat(<<Bol, Rep(Chr(Space), 0, Unbounded), Lit("©"), Rep(Chr(Space), 0, Unbounded), Rep(Chr(Digit), 4, 4), Rep(AnyCh, 1, Unbounded), Lit("All rights reserved"), Rep(Lit("."), 0, 1), Rep(Chr(Space), 0, Unbounded), Eol>>)]
  >>


\* scope == "line" and pattern.search(line), for some entry of the library
MatchesPattern(line) ==
  \E k \in DOMAIN METADATA_PATTERNS :
    METADATA_PATTERNS[k].scope = "line" /\ ReSearch(METADATA_PATTERNS[k].pattern, line)

\* ------------------------------------------------------------------------
\* re.sub: leftmost matches, each replaced, scanning on after the match.
\* Every pattern substituted below is greedy without alternatives and
\* matches at least one character, so the match that starts at a position
\* is the longest one that starts there.
\* ------------------------------------------------------------------------

\* The digits that end m: group 1 of p\.\s*(\d+) and of pp\.\s*(\d+)
TrailingDigits(m) ==
  LET nd == {i \in 1..Len(m) : Char(m, i) \notin Digit}
  IN  SubSeq(m, (IF nd = {} THEN 0 ELSE SetMax(nd)) + 1, Len(m))

\* lambda m: m.group(1) + m.group(2) if m.group(2)[0].islower() else m.group(0)
JoinHyphenated(m) ==
  LET h == SetMin({i \in 1..Len(m) : Char(m, i) = "-"})
      group1 == SubSeq(m, 1, h - 1)
      group2 == SubSeq(m, h + 2, Len(m))
  IN  IF Char(group2, 1) \in Lower THEN group1 \o group2 ELSE m

\* The replacement of a match m: the lambda of the hyphenation repair, a
\* template that ends in \1, or a plain string
Replacement(repl, m) ==
  IF repl = "lambda" THEN JoinHyphenated(m)
  ELSE IF Len(repl) >= 2 /\ SubSeq(repl, Len(repl) - 1, Len(repl)) = "\\1"
  THEN SubSeq(repl, 1, Len(repl) - 2) \o TrailingDigits(m)
  ELSE repl

\* The least start in lo..hi of a match, when there is one
RECURSIVE LeftmostStart(_, _, _, _)
LeftmostStart(re, s, lo, hi) ==
  IF lo = hi THEN lo
  ELSE LET mid == (lo + hi) \div 2
       IN  IF Ends(re, s, lo..mid) # {} THEN LeftmostStart(re, s, lo, mid)
           ELSE LeftmostStart(re, s, mid + 1, hi)

RECURSIVE ReSubFrom(_, _, _, _)
ReSubFrom(re, repl, s, i) ==
  IF Ends(re, s, i..Len(s)) = {} THEN SubSeq(s, i, Len(s))
  ELSE LET k == LeftmostStart(re, s, i, Len(s))
           e == SetMax(Ends(re, s, {k}))
       IN  SubSeq(s, i, k - 1) \o Replacement(repl, SubSeq(s, k, e - 1))
           \o ReSubFrom(re, repl, s, e)

ReSub(re, repl, s) == ReSubFrom(re, repl, s, 1)

\* ------------------------------------------------------------------------
\* Core functions
\* ------------------------------------------------------------------------

\* [line.strip() for line in page_text.split('\n') if line.strip()]
RECURSIVE StrippedFrom(_, _)
StrippedFrom(ls, i) ==
  IF i > Len(ls) THEN <<>>
  ELSE (IF Strip(ls[i]) = "" THEN <<>> ELSE <<Strip(ls[i])>>) \o StrippedFrom(ls, i + 1)

NonBlankLines(page_text) == StrippedFrom(SplitLines(page_text), 1)

\* ^\s*\d{1,4}\s*$
page_number_line ==
  Cat(<<Bol, Rep(Chr(Space), 0, Unbounded), Rep(Chr(Digit), 1, 4), Rep(Chr(Space), 0, Unbounded), Eol>>)

Min2(a, b) == IF a < b THEN a ELSE b

Max2(a, b) == IF a > b THEN a ELSE b

\* The (line_pos, line) pairs of one page, positions counted from 0
positions_to_check(lines) ==
  IF Len(lines) >= 3
  THEN [i \in 1..Min2(3, Len(lines)) |-> <<i - 1, lines[i]>>]
       \o [i \in 1..Min2(3, Len(lines)) |-> <<Len(lines) - i, lines[Len(lines) - i + 1]>>]
  ELSE <<>>

RECURSIVE CandidatesFrom(_, _, _)
CandidatesFrom(page_idx, checks, k) ==
  IF k > Len(checks) THEN <<>>
  ELSE (IF ReMatch(page_number_line, checks[k][2])
        THEN <<<<page_idx, checks[k][1], StrToInt(Strip(checks[k][2])), Strip(checks[k][2])>>>>
        ELSE <<>>)
       \o CandidatesFrom(page_idx, checks, k + 1)

\* The candidates (page_idx, line_pos, num_value, original) of all pages, in
\* the order the loop appends them; pages are counted from 0
RECURSIVE page_num_candidates(_, _)
page_num_candidates(pgs, p) ==
  IF p > Len(pgs) THEN <<>>
  ELSE CandidatesFrom(p - 1, positions_to_check(NonBlankLines(pgs[p])), 1)
       \o page_num_candidates(pgs, p + 1)

\* by_position[line_pos]: (page_idx, num_value, original), in append order
RECURSIVE by_position(_, _, _)
by_position(cands, line_pos, k) ==
  IF k > Len(cands) THEN <<>>
  ELSE (IF cands[k][2] = line_pos THEN <<<<cands[k][1], cands[k][3], cands[k][4]>>>> ELSE <<>>)
       \o by_position(cands, line_pos, k + 1)

\* Tuple order on (page_idx, num_value, ...): two entries of one position
\* group that agree on the page are the same line, so they agree throughout.
TupleLeq(a, b) == a[1] < b[1] \/ (a[1] = b[1] /\ a[2] <= b[2])

RECURSIVE InsertSorted(_, _)
InsertSorted(sorted, x) ==
  IF sorted = <<>> THEN <<x>>
  ELSE IF TupleLeq(sorted[Len(sorted)], x) THEN Append(sorted, x)
  ELSE Append(InsertSorted(SubSeq(sorted, 1, Len(sorted) - 1), x), sorted[Len(sorted)])

\* candidates.sort()
RECURSIVE SortCandidates(_)
SortCandidates(cs) ==
  IF cs = <<>> THEN <<>>
  ELSE InsertSorted(SortCandidates(SubSeq(cs, 1, Len(cs) - 1)), cs[Len(cs)])

\* The adjacent pairs with num2 > num1 and num2 - num1 <= 5
sequential_count(candidates) ==
  Cardinality({i \in 1..(Len(candidates) - 1) :
                 /\ candidates[i + 1][2] > candidates[i][2]
                 /\ candidates[i + 1][2] - candidates[i][2] <= 5})

\* sequential_count >= len(candidates) * 0.6
IsSequentialGroup(candidates) == 10 * sequential_count(candidates) >= 6 * Len(candidates)

PageNumbersOf(cands) ==
  IF Len(cands) < 3 THEN {}
  ELSE UNION {LET candidates == SortCandidates(by_position(cands, line_pos, 1))
              IN  IF Len(candidates) >= 3 /\ IsSequentialGroup(candidates)
                  THEN {candidates[i][3] : i \in DOMAIN candidates}
                  ELSE {}
              : line_pos \in {cands[k][2] : k \in DOMAIN cands}}

detect_page_numbers(pgs) == PageNumbersOf(page_num_candidates(pgs, 1))

MaxRepeatLen == 200

\* The normalized header and footer lines one page counts once each
WindowLines(page_text) ==
  LET lines == NonBlankLines(page_text)
      header_lines == SubSeq(lines, 1, Min2(5, Len(lines)))
      footer_lines == IF Len(lines) > 5 THEN SubSeq(lines, Len(lines) - 4, Len(lines)) ELSE <<>>
      both == header_lines \o footer_lines
      normalized == {Strip(StrLower(both[i])) : i \in DOMAIN both}
  IN  {n \in normalized : n # "" /\ Len(n) < MaxRepeatLen}

\* The window lines of every page, page by page
RECURSIVE page_windows(_, _)
page_windows(pgs, p) ==
  IF p > Len(pgs) THEN <<>> ELSE <<WindowLines(pgs[p])>> \o page_windows(pgs, p + 1)

\* line_counter[line] after the loop over the pages
line_counter(windows, line) == Cardinality({p \in DOMAIN windows : line \in windows[p]})

\* A slip: the floor of 3 is left out
RepeatThreshold_NoFloor(total_pages) == (total_pages * 4) \div 10

\* max(3, int(total_pages * 0.4))
RepeatThreshold(total_pages) == Max2(3, (total_pages * 4) \div 10)

\* A slip: the count has to exceed the threshold
RepeatingIn_Strict(windows, total_pages) ==
  {line \in UNION {windows[p] : p \in DOMAIN windows} :
     line_counter(windows, line) > RepeatThreshold(total_pages)}

RepeatingIn(windows, total_pages) ==
  {line \in UNION {windows[p] : p \in DOMAIN windows} :
     line_counter(windows, line) >= RepeatThreshold(total_pages)}

detect_repeating_lines(pgs) == RepeatingIn(page_windows(pgs, 1), Len(pgs))

front_matter_markers ==
  <<"jstor is a not-for-profit", "escholarship.org", "chicago unbound",
    "follow this and additional works", "stable url:", "recommended citation">>

FrontMatterLimit == 500

\* A slip: a first page of exactly the limit counts as front matter too
detect_front_matter_pages_AtLimit(pgs) ==
  IF pgs = <<>> THEN 0
  ELSE IF /\ \E m \in DOMAIN front_matter_markers :
               Contains(StrLower(pgs[1]), front_matter_markers[m])
          /\ Len(pgs[1]) <= FrontMatterLimit
       THEN 1
       ELSE 0

detect_front_matter_pages(pgs) ==
  IF pgs = <<>> THEN 0
  ELSE IF /\ \E m \in DOMAIN front_matter_markers :
               Contains(StrLower(pgs[1]), front_matter_markers[m])
          /\ Len(pgs[1]) < FrontMatterLimit
       THEN 1
       ELSE 0

\* A slip: the line is looked up in the removal set as written
KeepsLine_NoNormalize(line, removal_set) == ~MatchesPattern(line) /\ line \notin removal_set

\* A slip: blank lines are skipped, as the detectors skip them
KeepsLine_DropBlank(line, removal_set) ==
  Strip(line) # "" /\ ~MatchesPattern(line) /\ Strip(StrLower(line)) \notin removal_set

\* The lines clean_page keeps
KeepsLine(line, removal_set) ==
  ~MatchesPattern(line) /\ Strip(StrLower(line)) \notin removal_set

clean_page(text, removal_set) ==
  Join(SelectSeq(SplitLines(text), LAMBDA line : KeepsLine(line, removal_set)), "\n")

\* (\w+)-\n(\w+)
hyphen_break ==
  Cat(<<Rep(Chr(WordCh), 1, Unbounded), Lit("-\n"), Rep(Chr(WordCh), 1, Unbounded)>>)

\* \n{3,}
newline_run == Rep(Lit("\n"), 3, Unbounded)

fix_hyphenation(text) == ReSub(hyphen_break, "lambda", text)

\* A slip: only runs of four and more newlines are collapsed
collapse_newlines_Four(text) == ReSub(Rep(Lit("\n"), 4, Unbounded), "\n\n", text)

collapse_newlines(text) == ReSub(newline_run, "\n\n", text)

\* pages[front_matter_count:]
content_pages(pgs) == SubSeq(pgs, detect_front_matter_pages(pgs) + 1, Len(pgs))

lines_to_remove(pgs) == detect_repeating_lines(pgs) \cup detect_page_numbers(pgs)

\* cleaned_pages after the loop over the pages
RECURSIVE clean_pages_from(_, _, _)
clean_pages_from(pgs, removal_set, p) ==
  IF p > Len(pgs) THEN <<>>
  ELSE <<clean_page(pgs[p], removal_set)>> \o clean_pages_from(pgs, removal_set, p + 1)

clean_pages(pgs, removal_set) == clean_pages_from(pgs, removal_set, 1)

\* A slip: the final strip() is left out
finish_document_NoStrip(pages_cleaned) ==
  collapse_newlines(fix_hyphenation(Join(pages_cleaned, "\n\n")))

\* The text after the pages are cleaned and joined
finish_document(pages_cleaned) ==
  Strip(collapse_newlines(fix_hyphenation(Join(pages_cleaned, "\n\n"))))

clean_document(pgs) ==
  IF pgs = <<>> THEN ""
  ELSE IF content_pages(pgs) = <<>> THEN ""
  ELSE finish_document(clean_pages(content_pages(pgs), lines_to_remove(content_pages(pgs))))

HeadingEndings == {".", "!", "?", ":", ";", ","}

MaxHeadingLen == 100

UpperCount(s) == Cardinality({i \in 1..Len(s) : Char(s, i) \in Upper})

\* A slip: capitals making up exactly 30% of the line count as well
is_heading_AtRatio(line) ==
  LET stripped == Strip(line)
  IN  /\ stripped # "" /\ Len(stripped) < MaxHeadingLen
      /\ \/ StrIsUpper(stripped)
         \/ Char(stripped, 1) \in Upper /\ 10 * UpperCount(stripped) >= 3 * Len(stripped)
      /\ Char(stripped, Len(stripped)) \notin HeadingEndings

\* A slip: the last character of the line is not looked at
is_heading_AnyEnding(line) ==
  LET stripped == Strip(line)
  IN  /\ stripped # "" /\ Len(stripped) < MaxHeadingLen
      /\ \/ StrIsUpper(stripped)
         \/ Char(stripped, 1) \in Upper /\ 10 * UpperCount(stripped) > 3 * Len(stripped)

\* is_heading of one line of format_for_tts
is_heading(line) ==
  LET stripped == Strip(line)
  IN  /\ stripped # "" /\ Len(stripped) < MaxHeadingLen
      /\ \/ StrIsUpper(stripped)
         \/ Char(stripped, 1) \in Upper /\ 10 * UpperCount(stripped) > 3 * Len(stripped)
      /\ Char(stripped, Len(stripped)) \notin HeadingEndings

\* result_lines for the lines lo..hi
RECURSIVE mark_headings(_, _, _)
mark_headings(lines, lo, hi) ==
  IF lo > hi THEN <<>>
  ELSE IF lo = hi
  THEN IF is_heading(lines[lo]) THEN <<"", Strip(lines[lo]) \o ".", "">> ELSE <<lines[lo]>>
  ELSE mark_headings(lines, lo, (lo + hi) \div 2) \o mark_headings(lines, (lo + hi) \div 2 + 1, hi)

\* A slip: "pp." is replaced by "p. N pages", which the sixth rule matches
abbreviations_PagesKeepP ==
  << <<Cat(<<WordB, LitI("et al.")>>), "and others">>,
     <<Cat(<<WordB, LitI("ibid.")>>), "same source">>,
     <<Cat(<<WordB, LitI("cf.")>>), "compare">>,
     <<Cat(<<WordB, LitI("e.g.")>>), "for example">>,
     <<Cat(<<WordB, LitI("i.e.")>>), "that is">>,
     <<Cat(<<WordB, LitI("p."), Rep(Chr(Space), 0, Unbounded), Rep(Chr(Digit), 1, Unbounded)>>), "page \\1">>,
     <<Cat(<<WordB, LitI("pp."), Rep(Chr(Space), 0, Unbounded), Rep(Chr(Digit), 1, Unbounded)>>), "p. \\1">> >>

\* The (pattern, replacement) list of format_for_tts
abbreviations ==
  << <<Cat(<<WordB, LitI("et al.")>>), "and others">>,
     <<Cat(<<WordB, LitI("ibid.")>>), "same source">>,
     <<Cat(<<WordB, LitI("cf.")>>), "compare">>,
     <<Cat(<<WordB, LitI("e.g.")>>), "for example">>,
     <<Cat(<<WordB, LitI("i.e.")>>), "that is">>,
     <<Cat(<<WordB, LitI("p."), Rep(Chr(Space), 0, Unbounded), Rep(Chr(Digit), 1, Unbounded)>>), "page \\1">>,
     <<Cat(<<WordB, LitI("pp."), Rep(Chr(Space), 0, Unbounded), Rep(Chr(Digit), 1, Unbounded)>>), "pages \\1">> >>

RECURSIVE expand_abbreviations(_, _)
expand_abbreviations(text, k) ==
  IF k > Len(abbreviations) THEN text
  ELSE expand_abbreviations(ReSub(abbreviations[k][1], abbreviations[k][2], text), k + 1)

\* formatted_lines after the loop over the lines
heading_step(text) == LET lines == SplitLines(text) IN mark_headings(lines, 1, Len(lines))

format_for_tts(text, is_faithful) ==
  LET marked == Join(heading_step(text), "\n")
      expanded == IF ~is_faithful THEN expand_abbreviations(marked, 1) ELSE marked
  IN  Strip(collapse_newlines(expanded))

\* ------------------------------------------------------------------------
\* Citation header
\* ------------------------------------------------------------------------

\* info of extract_citation as it is created: every field None.  A field is
\* <<>> for None and <<s>> for the string s.
NoInfo == [title |-> <<>>, author |-> <<>>, date |-> <<>>, source |-> <<>>]

\* bool(citation.get(key)): the field is neither None nor the empty string
HasField(field) == field # <<>> /\ field[1] # ""

\* The character of the rule under the header ('—' * 40): U+2014 in the
\* source, written as a hyphen here
RuleChar == "-"

RuleWidth == 40

\* parts of format_citation_header
header_parts(cit) ==
  LET source_date == (IF HasField(cit.source) THEN cit.source ELSE <<>>)
                     \o (IF HasField(cit.date) THEN cit.date ELSE <<>>)
  IN  cit.title
      \o (IF HasField(cit.author) THEN <<"By " \o cit.author[1]>> ELSE <<>>)
      \o (IF source_date # <<>> THEN <<Join(source_date, ", ")>> ELSE <<>>)

\* A slip: a title on its own is enough for a header
format_citation_header_TitleOnly(cit) ==
  IF ~HasField(cit.title) THEN ""
  ELSE Join(header_parts(cit), "\n") \o "\n\n" \o Repeat(RuleChar, RuleWidth) \o "\n\n"

format_citation_header(cit) ==
  IF ~HasField(cit.title)
     \/ ~(HasField(cit.author) \/ HasField(cit.source) \/ HasField(cit.date))
  THEN ""
  ELSE Join(header_parts(cit), "\n") \o "\n\n" \o Repeat(RuleChar, RuleWidth) \o "\n\n"

\* ------------------------------------------------------------------------
\* extract_citation
\* ------------------------------------------------------------------------

junk == {"untitled", "sometitle", "someauthor", "unknown", "none", "microsoft word"}

\* A slip: the new value always replaces the field
FieldOr_Overwrite(field, value) == <<value>>

\* info[key] or value
FieldOr(field, value) == IF HasField(field) THEN field ELSE <<value>>

\* 1. info after the embedded metadata is read; nothing is set when opening
\* the file or reading its metadata raises
info_from_metadata(metadata) ==
  LET \* (meta.get(key) or "").strip()
      meta_text(field) == IF field = <<>> THEN "" ELSE Strip(field[1])
      title == meta_text(metadata.title)
      author == meta_text(metadata.author)
  IN  IF metadata.raises THEN NoInfo
      ELSE [NoInfo EXCEPT
              !.title = IF title # "" /\ Len(title) > 3 /\ StrLower(title) \notin junk
                        THEN <<title>> ELSE <<>>,
              !.author = IF author # "" /\ Len(author) > 1 /\ StrLower(author) \notin junk
                         THEN <<author>> ELSE <<>>]

\* \.\s*ProQuest\s*(Ebook Central)?\.?\s*$
proquest_line ==
  Cat(<<Lit("."), Rep(Chr(Space), 0, Unbounded), Lit("ProQuest"), Rep(Chr(Space), 0, Unbounded),
        Rep(Lit("Ebook Central"), 0, 1), Rep(Lit("."), 0, 1), Rep(Chr(Space), 0, Unbounded), Eol>>)

\* str.rstrip(',')
RECURSIVE RStripComma(_)
RStripComma(s) ==
  IF s # "" /\ Char(s, Len(s)) = "," THEN RStripComma(SubSeq(s, 1, Len(s) - 1)) ELSE s

\* re.match(r'^([^.]+,\s*[^.]+)\.\s+(.+),\s+.+,\s+(\d{4})\.\s*ProQuest', line)
\* and its groups.  Group 1 runs to the first period and holds a comma with
\* a character on either side.  Group 2 is greedy: it ends at the last
\* ", " that is followed by at least one character and a ", year. ProQuest",
\* and starts after the blanks that follow the period (keeping one blank
\* when the comma comes directly).  Group 3 is the year of the last
\* ", year. ProQuest" after that.
proquest_match(line) ==
  LET \* ,\s+(\d{4})\.\s*ProQuest, the end of the pattern
      proquest_year ==
        Cat(<<Lit(","), Rep(Chr(Space), 1, Unbounded), Rep(Chr(Digit), 4, 4), Lit("."),
              Rep(Chr(Space), 0, Unbounded), Lit("ProQuest")>>)
      dots == {i \in 1..Len(line) : Char(line, i) = "."}
      d == SetMin(dots)
      years == {f \in 1..Len(line) : Ends(proquest_year, line, {f}) # {}}
      cuts == {e \in (d + 3)..Len(line) :
                 /\ Char(line, e) = ","
                 /\ Char(line, e + 1) \in Space
                 /\ \E f \in years : f >= e + 3}
      e == SetMax(cuts)
      f == SetMax({y \in years : y >= e + 3})
      start == Min2(RunStop(Chr(Space), line, d + 1), e - 1)
      year == RunStop(Chr(Space), line, f + 1)
  IN  IF /\ dots # {}
         /\ \E c \in 2..(d - 2) : Char(line, c) = ","
         /\ d < Len(line) /\ Char(line, d + 1) \in Space
         /\ cuts # {}
      THEN [matched |-> TRUE,
            group1 |-> SubSeq(line, 1, d - 1),
            group2 |-> SubSeq(line, start, e - 1),
            group3 |-> SubSeq(line, year, year + 3)]
      ELSE [matched |-> FALSE, group1 |-> "", group2 |-> "", group3 |-> ""]

\* 2. The first line that ends like a ProQuest citation is parsed
RECURSIVE info_from_proquest(_, _, _)
info_from_proquest(info, lines, k) ==
  IF k > Len(lines) THEN info
  ELSE IF ReSearch(proquest_line, lines[k])
  THEN LET m == proquest_match(lines[k])
       IN  IF m.matched
           THEN [info EXCEPT !.author = FieldOr(info.author, Strip(m.group1)),
                             !.title = FieldOr(info.title, RStripComma(Strip(m.group2))),
                             !.date = FieldOr(info.date, m.group3)]
           ELSE info
  ELSE info_from_proquest(info, lines, k + 1)

\* re.match(r'^(\d{4}),\s*VOL\.\s*(\d+),\s*NO\.\s*(\d+)', line, re.IGNORECASE)
issue_match(line) ==
  LET \* ^(\d{4}),\s*VOL\.\s*  and  ,\s*NO\.\s*
      issue_year_vol ==
        Cat(<<Rep(Chr(Digit), 4, 4), Lit(","), Rep(Chr(Space), 0, Unbounded), LitI("VOL."),
              Rep(Chr(Space), 0, Unbounded)>>)
      issue_no ==
        Cat(<<Lit(","), Rep(Chr(Space), 0, Unbounded), LitI("NO."), Rep(Chr(Space), 0, Unbounded)>>)
      vol == SetMax(Ends(issue_year_vol, line, {1}))
      vol_end == RunStop(Chr(Digit), line, vol)
      no == SetMax(Ends(issue_no, line, {vol_end}))
      no_end == RunStop(Chr(Digit), line, no)
  IN  IF /\ Ends(issue_year_vol, line, {1}) # {}
         /\ vol_end > vol
         /\ Ends(issue_no, line, {vol_end}) # {}
         /\ no_end > no
      THEN [matched |-> TRUE,
            group1 |-> SubSeq(line, 1, 4),
            group2 |-> SubSeq(line, vol, vol_end - 1),
            group3 |-> SubSeq(line, no, no_end - 1)]
      ELSE [matched |-> FALSE, group1 |-> "", group2 |-> "", group3 |-> ""]

\* 3. Journal header and issue line, line by line
RECURSIVE info_from_journal(_, _, _)
info_from_journal(info, lines, k) ==
  IF k > Len(lines) THEN info
  ELSE LET line == lines[k]
           \* line.isupper() and 15 < len(line) < 100 and "JOURNAL" in line
           journal_header ==
             StrIsUpper(line) /\ 15 < Len(line) /\ Len(line) < 100 /\ Contains(line, "JOURNAL")
           named == IF journal_header
                    THEN [info EXCEPT !.source = FieldOr(info.source, Strip(line))]
                    ELSE info
           m == issue_match(line)
           dated == IF m.matched
                    THEN [named EXCEPT
                            !.date = FieldOr(named.date, m.group1),
                            !.source = IF HasField(named.source)
                                       THEN <<named.source[1] \o " Vol. " \o m.group2
                                              \o ", No. " \o m.group3>>
                                       ELSE named.source]
                    ELSE named
       IN  info_from_journal(dated, lines, k + 1)

\* ^(\d{4})\.\s+(.+(?:Press|Books|Publishing|Publishers).+)\.\s*$
publisher_line ==
  Cat(<<Rep(Chr(Digit), 4, 4), Lit("."), Rep(Chr(Space), 1, Unbounded), Rep(AnyCh, 1, Unbounded),
        Alt(<<Lit("Press"), Lit("Books"), Lit("Publishing"), Lit("Publishers")>>),
        Rep(AnyCh, 1, Unbounded), Lit("."), Rep(Chr(Space), 0, Unbounded), Eol>>)

\* 4. Publisher lines.  A line is stripped, so the closing period of a match
\* is its last character, and group 2, once stripped, is what stands between
\* the year's period and that one.
RECURSIVE info_from_publisher(_, _, _)
info_from_publisher(info, lines, k) ==
  IF k > Len(lines) THEN info
  ELSE LET line == lines[k]
           found == IF ReMatch(publisher_line, line)
                    THEN [info EXCEPT
                            !.date = FieldOr(info.date, SubSeq(line, 1, 4)),
                            !.source = FieldOr(info.source, Strip(SubSeq(line, 6, Len(line) - 1)))]
                    ELSE info
       IN  info_from_publisher(found, lines, k + 1)

\* skip_patterns, searched ignoring case
skip_patterns ==
  << Cat(<<Bol, Alt(<<LitI("Chapter"), LitI("Part"), LitI("Section")>>),
           Rep(Chr(Space), 1, Unbounded), Rep(Chr(WordCh), 1, Unbounded)>>),
     Cat(<<Bol, LitI("OTHER"), Rep(Chr(Space), 1, Unbounded), LitI("WORKS")>>),
     Cat(<<Bol, LitI("PUBLISHED"), Rep(Chr(Space), 1, Unbounded), LitI("BY")>>),
     Cat(<<Bol, Alt(<<LitI("Also"), LitI("See")>>), Rep(Chr(Space), 1, Unbounded)>>),
     LitI("also appears"),
     Cat(<<Bol, Alt(<<LitI("Edited"), LitI("Translated"), LitI("With"), LitI("Foreword")>>)>>),
     Cat(<<Bol, Rep(Chr(Digit), 4, 4), Lit(".")>>) >>

MinTitleLen == 20

TitleLines == 10

\* The line passes every test of the title guess
title_candidate(line) ==
  /\ ~(Len(line) < MinTitleLen
       \/ ReMatch(Cat(<<Bol, Rep(Chr(Digit), 1, Unbounded), Eol>>), line))   \* ^\d+$
  /\ Char(line, 1) \notin Lower
  /\ Char(line, Len(line)) \notin {",", ";", "-"}
  /\ ~\E k \in DOMAIN skip_patterns : ReSearch(skip_patterns[k], line)
  /\ ~MatchesPattern(line)

\* A slip: the line after the guessed title is taken for the author
guess_title_AndAuthor(info, lines) ==
  LET firsts == SubSeq(lines, 1, Min2(TitleLines, Len(lines)))
      fit == {k \in DOMAIN firsts : title_candidate(firsts[k])}
  IN  IF ~HasField(info.title) /\ fit # {}
      THEN [info EXCEPT !.title = <<firsts[SetMin(fit)]>>,
                        !.author = IF SetMin(fit) < Len(lines)
                                   THEN FieldOr(info.author, lines[SetMin(fit) + 1])
                                   ELSE info.author]
      ELSE info

\* 5. The title guess over lines[:10], made only when no title is set
guess_title(info, lines) ==
  LET firsts == SubSeq(lines, 1, Min2(TitleLines, Len(lines)))
      fit == {k \in DOMAIN firsts : title_candidate(firsts[k])}
  IN  IF ~HasField(info.title) /\ fit # {}
      THEN [info EXCEPT !.title = <<firsts[SetMin(fit)]>>]
      ELSE info

extract_citation(metadata, raw_pages) ==
  LET lines == NonBlankLines(raw_pages[1])
      first == info_from_metadata(metadata)
  IN  IF raw_pages = <<>> THEN first
      ELSE guess_title(
             info_from_publisher(
               info_from_journal(
                 info_from_proquest(first, lines, 1), lines, 1), lines, 1), lines)

\* ------------------------------------------------------------------------
\* extract_text.  A page of the file is its text layer and what OCR of its
\* image does: raise, or return a text.
\* ------------------------------------------------------------------------

MinPageText == 50

\* len(text.strip()) < 50
looks_scanned(page) == Len(Strip(page.text)) < MinPageText

\* text of the page when it is appended to pages
appended_text(page, ocr_available) ==
  IF looks_scanned(page) /\ ocr_available /\ ~page.ocr_raises THEN page.ocr_text ELSE page.text

\* Whether the page number is appended to ocr_pages: after image_to_string
\* has returned, or when there is no OCR because Tesseract is not installed
page_recorded(page, ocr_available, tesseract_installed) ==
  /\ looks_scanned(page)
  /\ IF ocr_available THEN ~page.ocr_raises ELSE ~tesseract_installed

\* A slip: a page whose OCR raises is not appended
pages_with_FailedLeftOut(pgs, page, ocr_available) ==
  IF looks_scanned(page) /\ ocr_available /\ page.ocr_raises THEN pgs
  ELSE Append(pgs, appended_text(page, ocr_available))

\* pages.append(text)
pages_with(pgs, page, ocr_available) == Append(pgs, appended_text(page, ocr_available))

\* The notice after the loop: OCR was applied to so many pages, or so many
\* pages look scanned and there is no OCR
ocr_notice(recorded, ocr_available) ==
  IF recorded = <<>> THEN [kind |-> "none", count |-> 0]
  ELSE [kind |-> IF ocr_available THEN "ocr_applied" ELSE "scanned_no_ocr", count |-> Len(recorded)]

\* ------------------------------------------------------------------------
\* The pipeline as a state machine
\* ------------------------------------------------------------------------

VARIABLES
  pages,              \* the page list handed to clean_document
  faithful,           \* the faithful flag process_file hands to format_for_tts
  pc,                 \* where the run is: "start", "cleaned", "formatted", "empty",
                      \* and "call_..." / "done_..." around a call of one function
  front_matter_count, \* detect_front_matter_pages(pages)
  candidates,         \* page_num_candidates of detect_page_numbers
  page_numbers,       \* detect_page_numbers(pages[front_matter_count:])
  repeating_lines,    \* detect_repeating_lines(pages[front_matter_count:])
  removal,            \* lines_to_remove, and the set handed to clean_page
  cleaned_pages,      \* the clean_page result of every remaining page
  cleaned_text,       \* what clean_document returns
  formatted_lines,    \* formatted_lines of format_for_tts after its loop over the lines
  formatted_text,     \* what format_for_tts returns
  doc,                \* the PDF file: whether fitz.open succeeds, its embedded
                      \* metadata, and per page the text layer and what OCR would do
  OCR_AVAILABLE,      \* the module flags of the same names
  TESSERACT_INSTALLED,
  page_num,           \* the loop index of extract_text
  ocr_pages,          \* ocr_pages of extract_text
  notice,             \* the notice extract_text prints after its loop, and the count in it
  citation,           \* what extract_citation returns
  citation_header,    \* what format_citation_header returns
  result,             \* what process_file returns: no path (None) or one path
  pdf_files,          \* pdf_files of main: the files to process, in order
  file_num,           \* how many of them process_file has been called on
  output_files,       \* output_files of main
  calls,              \* the calls of process_file that have returned: the file, the
                      \* return statement reached, and the value the caller got
  CURRENT_PROFILE,    \* the module variable of the same name: "cunty" or "normie"
  tasks,              \* the stage functions process_file has called, directly or in a
                      \* thread of gray_spinner_with_task: how far each has run, its result
  trace,              \* the starts and returns of the stage functions, as they happen
  pattern_order,      \* the order of METADATA_PATTERNS: position k of the list holds
                      \* the pattern that is number pattern_order[k] in the source
  VERSION,            \* the module constant of the same name, bumped by hand at a release
  release,            \* what the GitHub request of check_for_updates gives: it fails, or
                      \* the tag_name of the latest release
  latest_version,     \* latest_version of check_for_updates
  update_offered      \* whether check_for_updates has announced an update

\* The variables of clean_document
cleanVars == <<front_matter_count, candidates, page_numbers, repeating_lines,
               removal, cleaned_pages, cleaned_text>>

\* The variables of extract_text, pages apart
extractVars == <<doc, OCR_AVAILABLE, TESSERACT_INSTALLED, page_num, ocr_pages, notice>>

\* The variables of extract_citation and format_citation_header
citeVars == <<citation, citation_header>>

\* The variables of main
\* The variables of the profile and of gray_spinner_with_task
threadVars == <<CURRENT_PROFILE, tasks, trace>>

\* The variables of check_for_updates
updateVars == <<VERSION, release, latest_version, update_offered>>

mainVars == <<pdf_files, file_num, output_files, calls, threadVars, pattern_order, updateVars>>

vars == <<pages, faithful, pc, cleanVars, formatted_lines, formatted_text,
          extractVars, citeVars, result, mainVars>>

\* The texts made of at most n tokens of a pool
RECURSIVE TextsOf(_, _)
TextsOf(pool, n) ==
  IF n = 0 THEN {""}
  ELSE LET shorter == TextsOf(pool, n - 1)
       IN  shorter \cup {t \o w : t \in shorter, w \in pool}

\* The page lists of 1..n pages of a pool
RECURSIVE DocsOf(_, _)
DocsOf(pool, n) ==
  IF n = 0 THEN {<<>>}
  ELSE LET shorter == DocsOf(pool, n - 1)
       IN  shorter \cup {Append(d, p) : d \in shorter, p \in pool}

\* A file that is not read: the functions are handed their arguments directly
NoFile ==
  /\ doc = [name |-> "", opens |-> FALSE,
            metadata |-> [raises |-> TRUE, title |-> <<>>, author |-> <<>>], pages |-> <<>>]
  /\ OCR_AVAILABLE = FALSE
  /\ TESSERACT_INSTALLED = FALSE
  /\ pdf_files = <<>>
  /\ file_num = 0
  /\ CURRENT_PROFILE = "cunty"

\* The patterns in the order of the source
SourceOrder == [k \in DOMAIN METADATA_PATTERNS |-> k]

\* The version of the source, and no release looked up
NoRelease ==
  /\ VERSION = "1.0.0"
  /\ release = [fails |-> TRUE, tag_name |-> ""]
  /\ latest_version = ""
  /\ update_offered = FALSE

\* Nothing computed yet, the pattern list as in the source
Fresh ==
  /\ front_matter_count = 0
  /\ candidates = <<>>
  /\ page_numbers = {}
  /\ repeating_lines = {}
  /\ cleaned_pages = <<>>
  /\ cleaned_text = ""
  /\ formatted_lines = <<>>
  /\ formatted_text = ""
  /\ page_num = 0
  /\ ocr_pages = <<>>
  /\ notice = [kind |-> "none", count |-> 0]
  /\ citation = NoInfo
  /\ citation_header = ""
  /\ result = <<>>
  /\ output_files = <<>>
  /\ calls = <<>>
  /\ tasks = <<>>
  /\ trace = <<>>
  /\ pattern_order = SourceOrder
  /\ NoRelease

Blank == Fresh /\ NoFile

\* clean_document(pages)
CleanDocument ==
  /\ pc = "start"
  /\ LET rest == content_pages(pages)
         cands == page_num_candidates(rest, 1)
         nums == PageNumbersOf(cands)
         reps == detect_repeating_lines(rest)
         cleaned == clean_pages(rest, reps \cup nums)
     IN  /\ front_matter_count' = detect_front_matter_pages(pages)
         /\ IF pages = <<>> \/ rest = <<>>
            THEN /\ candidates' = <<>>
                 /\ page_numbers' = {}
                 /\ repeating_lines' = {}
                 /\ removal' = {}
                 /\ cleaned_pages' = <<>>
                 /\ cleaned_text' = ""
            ELSE /\ candidates' = cands
                 /\ page_numbers' = nums
                 /\ repeating_lines' = reps
                 /\ removal' = reps \cup nums
                 /\ cleaned_pages' = cleaned
                 /\ cleaned_text' = finish_document(cleaned)
  /\ pc' = "cleaned"
  /\ UNCHANGED <<pages, faithful, formatted_lines, formatted_text, extractVars,
                 citeVars, result, mainVars>>

\* process_file after clean_document: nothing to format, or format_for_tts
FormatForTts ==
  /\ pc = "cleaned"
  /\ IF cleaned_text = ""
     THEN pc' = "empty" /\ result' = <<>>
          /\ UNCHANGED <<faithful, formatted_lines, formatted_text>>
     ELSE /\ pc' = "formatted"
          /\ \E flag \in BOOLEAN :
               /\ faithful' = flag
               /\ formatted_lines' = heading_step(cleaned_text)
               /\ formatted_text' = format_for_tts(cleaned_text, flag)
          /\ UNCHANGED result
  /\ UNCHANGED <<pages, cleanVars, extractVars, citeVars, mainVars>>

Next == CleanDocument \/ FormatForTts

\* clean_page(text, removal) called on its own; the text is pages[1]
CleanPage ==
  /\ pc = "call_clean_page"
  /\ cleaned_pages' = <<clean_page(pages[1], removal)>>
  /\ pc' = "done_clean_page"
  /\ UNCHANGED <<pages, faithful, front_matter_count, candidates, page_numbers,
                 repeating_lines, removal, cleaned_text, formatted_lines,
                 formatted_text, extractVars, citeVars, result, mainVars>>

\* format_for_tts(text, faithful) called on its own; the text is pages[1]
FormatCall ==
  /\ pc = "call_format"
  /\ formatted_lines' = heading_step(pages[1])
  /\ formatted_text' = format_for_tts(pages[1], faithful)
  /\ pc' = "done_format"
  /\ UNCHANGED <<pages, faithful, cleanVars, extractVars, citeVars, result, mainVars>>

\* detect_page_numbers(pages) called on its own
DetectPageNumbers ==
  /\ pc = "call_detect_page_numbers"
  /\ candidates' = page_num_candidates(pages, 1)
  /\ page_numbers' = detect_page_numbers(pages)
  /\ pc' = "done_detect_page_numbers"
  /\ UNCHANGED <<pages, faithful, front_matter_count, repeating_lines, removal,
                 cleaned_pages, cleaned_text, formatted_lines, formatted_text,
                 extractVars, citeVars, result, mainVars>>

\* ------------------------------------------------------------------------
\* Documents the pipeline is run on
\* ------------------------------------------------------------------------

\* Short texts, character by character: words, line-end hyphens, line
\* breaks and blanks.  One page through the pipeline, or one text handed
\* to format_for_tts directly.
MaxTokens == 5

MaxCallTokens == 4

TextTokens == {"a", "B", "-\n", "\n", " "}

InitText ==
  /\ \/ /\ pc = "start"
        /\ pages \in {<<t>> : t \in TextsOf(TextTokens, MaxTokens)}
        /\ faithful = FALSE
     \/ /\ pc = "call_format"
        /\ pages \in {<<t>> : t \in TextsOf(TextTokens, MaxCallTokens)}
        /\ faithful \in BOOLEAN
  /\ removal = {}
  /\ Blank

SpecText == InitText /\ [][Next \/ FormatCall]_vars

\* Page lists of whole pages: front matter, boilerplate, headers, blanks
MaxDocPages == 3

PagePool ==
  {"", "Recommended Citation\nSmith 2020", "http://a\n \n", "Head", "Head\n\nbody text",
   " HEAD \nAccount: x1"}

InitDocs ==
  /\ pc = "start"
  /\ pages \in DocsOf(PagePool, MaxDocPages)
  /\ faithful = FALSE
  /\ removal = {}
  /\ Blank

SpecDocs == InitDocs /\ [][Next]_vars

Spec == SpecDocs

\* One page text and a removal set handed to clean_page
MaxPageLines == 3

LinePool == {"", "Running Head", "  RUNNING HEAD ", "12 ", "See http://a", "http://a"}

RemovalPool == {"", "running head", "Running Head", "12"}

InitPage ==
  /\ pc = "call_clean_page"
  /\ pages \in {<<Join(ls, "\n")>> :
                  ls \in UNION {[1..n -> LinePool] : n \in 1..MaxPageLines}}
  /\ removal \in SUBSET RemovalPool
  /\ faithful = FALSE
  /\ Blank

SpecPage == InitPage /\ [][CleanPage]_vars

\* Documents with a running header: the header line heads the first or the
\* last k of the pages; every other page has eleven lines of its own with
\* the header, in its other spelling, in the middle.  Pages 1 and 2 also
\* start with a side note.  Body lines differ from page to page.
MaxPages == 10

PageDigit(i) == Char(DigitChars, (i % 10) + 1)

SideNote(i) == IF i <= 2 THEN "Side Note\n" ELSE ""

HeaderPage(h, i) == SideNote(i) \o h.head \o "\n" \o "body of page " \o PageDigit(i)

PlainWords == <<"alpha", "beta", "gamma", "delta", "epsilon", "zeta", "eta", "theta", "iota", "kappa">>

PlainPage(h, i) ==
  SideNote(i)
  \o Join([j \in 1..5 |-> PlainWords[j] \o " " \o PageDigit(i)], "\n")
  \o "\n" \o h.other \o "\n"
  \o Join([j \in 1..5 |-> PlainWords[j + 5] \o " " \o PageDigit(i)], "\n")

HeaderDoc(h, n, with) ==
  [i \in 1..n |-> IF i \in with THEN HeaderPage(h, i) ELSE PlainPage(h, i)]

HeaderDocs(headers) ==
  {HeaderDoc(h, n, with) :
     h \in headers,
     n \in 1..MaxPages,
     with \in {1..k : k \in 0..MaxPages} \cup {k..MaxPages : k \in 1..MaxPages}}

ShortHeader == [head |-> "Running Head", other |-> "  RUNNING HEAD"]

\* Header lines of MaxRepeatLen - 1 and of MaxRepeatLen characters
LongHeaders ==
  {[head |-> Repeat("abcdefghij", MaxRepeatLen \div 10 - 1) \o tail,
    other |-> Repeat("abcdefghij", MaxRepeatLen \div 10 - 1) \o tail] :
     tail \in {"klmnopqrs", "klmnopqrst"}}

\* Three and four pages, each headed by a long header line
LongHeaderDocs == {HeaderDoc(h, n, 1..n) : h \in LongHeaders, n \in 3..4}

InitRepeat ==
  /\ pc = "start"
  /\ pages \in HeaderDocs({ShortHeader})
  /\ faithful = FALSE
  /\ removal = {}
  /\ Blank

SpecRepeat == InitRepeat /\ [][Next]_vars

InitHeaders ==
  /\ pc = "start"
  /\ pages \in HeaderDocs({ShortHeader}) \cup LongHeaderDocs
  /\ faithful = FALSE
  /\ removal = {}
  /\ Blank

SpecHeaders == InitHeaders /\ [][Next]_vars

\* Pages with one standalone number: alone, as the last of three or of six
\* lines, or as the first of four
MaxNumPages == 4

NumberLines == {"1", "2", "3"}

Layouts == {<<0, 0>>, <<2, 0>>, <<5, 0>>, <<0, 3>>}

NumberPage(before, num, after) ==
  Join([j \in 1..before |-> "w"] \o <<num>> \o [j \in 1..after |-> "w"], "\n")

NumberPages == {NumberPage(l[1], num, l[2]) : l \in Layouts, num \in NumberLines}

InitNumbers ==
  /\ pc = "call_detect_page_numbers"
  /\ pages \in DocsOf(NumberPages, MaxNumPages)
  /\ faithful = FALSE
  /\ removal = {}
  /\ Blank

SpecNumbers == InitNumbers /\ [][DetectPageNumbers]_vars

\* First pages around the front matter limit: a marker phrase, as written,
\* in upper case or after other words, or none; alone or padded with short
\* lines to one character less than the limit and to the limit
Pad(n) == Repeat("\nlorem ips", n \div 10) \o Repeat(".", n % 10)

FirstLines ==
  {"An article about things"}
  \cup UNION {{front_matter_markers[m],
               "See " \o front_matter_markers[m]} : m \in DOMAIN front_matter_markers}
  \cup {"STABLE URL:", "Recommended Citation"}

FrontPages ==
  UNION {{t \o Pad(n - Len(t)) : n \in {Len(t), FrontMatterLimit - 1, FrontMatterLimit}} :
           t \in FirstLines}

InitFront ==
  /\ pc = "start"
  /\ pages \in {<<>>} \cup {<<p>> : p \in FrontPages}
                     \cup {<<p, "Second page">> : p \in FrontPages}
  /\ faithful = FALSE
  /\ removal = {}
  /\ Blank

SpecFront == InitFront /\ [][Next]_vars

\* Texts of a few lines for format_for_tts: upper-case lines, lines with
\* three and four capitals in ten characters, a capital after a small
\* letter, digits, every closing punctuation mark, lines of
\* MaxHeadingLen - 1 and of MaxHeadingLen characters, abbreviations
MaxHeadLines == 2

InitHeadings ==
  /\ pc = "call_format"
  /\ LET pool == {"", "  ", "INTRODUCTION", "  Abc  ", "ABCdefghij", "ABCDefghij", "aBCDEFG",
                  "12 A", "1234", "A plain sentence", "END-", "ET AL", "See Ibid", "P", "12",
                  Repeat("ABCDEFGHIJ", MaxHeadingLen \div 10 - 1) \o "ABCDEFGHI",
                  Repeat("ABCDEFGHIJ", MaxHeadingLen \div 10)}
                 \cup {"END" \o e : e \in HeadingEndings}
     IN  pages \in {<<Join(ls, "\n")>> : ls \in UNION {[1..n -> pool] : n \in 1..MaxHeadLines}}
  /\ faithful \in BOOLEAN
  /\ removal = {}
  /\ Blank

SpecHeadings == InitHeadings /\ [][FormatCall]_vars

\* The abbreviation replacements of format_for_tts on their own: first on
\* pages[1], then once more on their own result
ExpandAbbreviations ==
  /\ pc = "call_expand"
  /\ formatted_text' = expand_abbreviations(pages[1], 1)
  /\ pc' = "done_expand"
  /\ UNCHANGED <<pages, faithful, cleanVars, formatted_lines, extractVars, citeVars, result, mainVars>>

ExpandAgain ==
  /\ pc = "done_expand"
  /\ pages' = <<formatted_text>>
  /\ formatted_text' = expand_abbreviations(formatted_text, 1)
  /\ pc' = "done_expand_again"
  /\ UNCHANGED <<faithful, cleanVars, formatted_lines, extractVars, citeVars, result, mainVars>>

\* Texts of abbreviations and of the fragments they share
MaxAbbrevTokens == 3

InitAbbrev ==
  /\ \/ /\ pc = "call_expand"
        /\ faithful = FALSE
     \/ /\ pc = "call_format"
        /\ faithful \in BOOLEAN
  /\ LET tokens == {"e.", "g.", "i.", "p.", "pp.", " ", "\n", "7", "x", "Et al.", "ibid.", "CF."}
     IN  pages \in {<<t>> : t \in TextsOf(tokens, MaxAbbrevTokens)}
  /\ removal = {}
  /\ Blank

SpecAbbrev == InitAbbrev /\ [][ExpandAbbreviations \/ ExpandAgain \/ FormatCall]_vars

\* format_citation_header(citation) called on its own
FormatCitationHeader ==
  /\ pc = "call_format_citation_header"
  /\ citation_header' = format_citation_header(citation)
  /\ pc' = "done_format_citation_header"
  /\ UNCHANGED <<pages, faithful, cleanVars, formatted_lines, formatted_text, extractVars,
                 citation, result, mainVars>>

\* Citations with every field None, empty or set
InitCitations ==
  /\ pc = "call_format_citation_header"
  /\ pages = <<>>
  /\ faithful = FALSE
  /\ removal = {}
  /\ front_matter_count = 0
  /\ candidates = <<>>
  /\ page_numbers = {}
  /\ repeating_lines = {}
  /\ cleaned_pages = <<>>
  /\ cleaned_text = ""
  /\ formatted_lines = <<>>
  /\ formatted_text = ""
  /\ page_num = 0
  /\ ocr_pages = <<>>
  /\ notice = [kind |-> "none", count |-> 0]
  /\ output_files = <<>>
  /\ calls = <<>>
  /\ tasks = <<>>
  /\ trace = <<>>
  /\ pattern_order = SourceOrder
  /\ NoRelease
  /\ citation \in [title : {<<>>, <<"">>, <<"On Method">>},
                    author : {<<>>, <<"">>, <<"Ann Lee">>},
                    date : {<<>>, <<"">>, <<"2020">>},
                    source : {<<>>, <<"">>, <<"Duke University Press">>}]
  /\ citation_header = ""
  /\ result = <<>>
  /\ NoFile

SpecCitations == InitCitations /\ [][FormatCitationHeader]_vars

\* extract_citation(pdf_path, raw_pages) called on its own: the file's
\* embedded metadata and the extracted pages
ExtractCitation ==
  /\ pc = "call_extract_citation"
  /\ citation' = extract_citation(doc.metadata, pages)
  /\ pc' = "done_extract_citation"
  /\ UNCHANGED <<pages, faithful, cleanVars, formatted_lines, formatted_text, extractVars,
                 citation_header, result, mainVars>>

\* Embedded metadata: unreadable, absent, good, junk or too short
Metadatas ==
  {[raises |-> TRUE, title |-> <<>>, author |-> <<>>],
   [raises |-> FALSE, title |-> <<>>, author |-> <<>>],
   [raises |-> FALSE, title |-> <<" On Being ">>, author |-> <<"Jo Day">>],
   [raises |-> FALSE, title |-> <<"On Being">>, author |-> <<"x">>],
   [raises |-> FALSE, title |-> <<"Untitled">>, author |-> <<"Al">>],
   [raises |-> FALSE, title |-> <<"Abc">>, author |-> <<"Unknown">>]}

\* First pages of a few lines: ProQuest citation lines that parse and that
\* do not, a journal header and its issue line, a publisher line, lines the
\* title guess takes and lines it skips
MaxCiteLines == 2

InitCite ==
  /\ pc = "call_extract_citation"
  /\ doc \in [name : {"a"}, opens : {TRUE}, metadata : Metadatas, pages : {<<>>}]
  /\ pdf_files = <<>>
  /\ file_num = 0
  /\ LET pool == {"Lee, Ann. On Method : A Study, Duke Press, 2020. ProQuest Ebook Central.",
                  "Ray, Bo.  , Duke Press, 1999. ProQuest",
                  "See more. ProQuest",
                  "JOURNAL OF LATINOS AND EDUCATION",
                  "2024, VOL. 23, NO. 2, 474-491",
                  "2019. Duke University Press Books.",
                  "An Essay on the Nature of Things",
                  "by Kim Roe of the University",
                  "Chapter One of the long story here",
                  ""}
     IN  pages \in {<<>>} \cup {<<Join(ls, "\n"), "second page">> :
                                  ls \in UNION {[1..n -> pool] : n \in 1..MaxCiteLines}}
  /\ CURRENT_PROFILE = "cunty"
  /\ OCR_AVAILABLE = FALSE
  /\ TESSERACT_INSTALLED = FALSE
  /\ faithful = FALSE
  /\ removal = {}
  /\ Fresh

SpecCite == InitCite /\ [][ExtractCitation]_vars

\* ------------------------------------------------------------------------
\* extract_text, step by step
\* ------------------------------------------------------------------------

\* fitz.open(pdf_path): an empty list is returned when it raises
OpenDocument ==
  /\ pc = "call_extract_text"
  /\ pages' = <<>>
  /\ ocr_pages' = <<>>
  /\ page_num' = 0
  /\ pc' = IF doc.opens THEN "extract_page" ELSE "done_extract_text"
  /\ UNCHANGED <<faithful, cleanVars, formatted_lines, formatted_text, doc, OCR_AVAILABLE,
                 TESSERACT_INSTALLED, notice, citeVars, result, mainVars>>

\* One turn of the loop over the pages
ExtractPage ==
  /\ pc = "extract_page"
  /\ page_num < Len(doc.pages)
  /\ LET page == doc.pages[page_num + 1]
     IN  /\ ocr_pages' = IF page_recorded(page, OCR_AVAILABLE, TESSERACT_INSTALLED)
                         THEN Append(ocr_pages, page_num + 1) ELSE ocr_pages
         /\ pages' = pages_with(pages, page, OCR_AVAILABLE)
  /\ page_num' = page_num + 1
  /\ UNCHANGED <<faithful, pc, cleanVars, formatted_lines, formatted_text, doc, OCR_AVAILABLE,
                 TESSERACT_INSTALLED, notice, citeVars, result, mainVars>>

\* After the last page: doc.close(), the notice, return pages
CloseDocument ==
  /\ pc = "extract_page"
  /\ page_num = Len(doc.pages)
  /\ notice' = ocr_notice(ocr_pages, OCR_AVAILABLE)
  /\ pc' = "done_extract_text"
  /\ UNCHANGED <<pages, faithful, cleanVars, formatted_lines, formatted_text, doc,
                 OCR_AVAILABLE, TESSERACT_INSTALLED, page_num, ocr_pages, citeVars, result,
                 mainVars>>

ExtractText == OpenDocument \/ ExtractPage \/ CloseDocument

\* Pages of a file: a text layer of 50 characters and more, one of 49
\* characters, one that is 49 characters once stripped, and none, each with
\* OCR that raises or returns a text
MaxFilePages == 3

FilePages ==
  LET words == "The quick brown fox jumps over the lazy dog again."
  IN  [text : {words, SubSeq(words, 1, MinPageText - 1),
               "  " \o SubSeq(words, 1, MinPageText - 1) \o "\n", ""},
       ocr_raises : {TRUE}, ocr_text : {""}]
      \cup [text : {SubSeq(words, 1, MinPageText - 1), ""},
            ocr_raises : {FALSE}, ocr_text : {"Text read from the page image by OCR, a long line.\n"}]

InitExtract ==
  /\ pc = "call_extract_text"
  /\ doc \in [name : {"a"}, opens : BOOLEAN,
              metadata : {[raises |-> FALSE, title |-> <<>>, author |-> <<>>]},
              pages : UNION {[1..n -> FilePages] : n \in 0..MaxFilePages}]
  /\ OCR_AVAILABLE \in BOOLEAN
  /\ TESSERACT_INSTALLED = OCR_AVAILABLE
  /\ pages = <<>>
  /\ faithful = FALSE
  /\ removal = {}
  /\ pdf_files = <<>>
  /\ file_num = 0
  /\ CURRENT_PROFILE = "cunty"
  /\ Fresh

SpecExtract == InitExtract /\ [][ExtractText]_vars

\* ------------------------------------------------------------------------
\* main and process_file: one file after the other
\* ------------------------------------------------------------------------

\* main calls process_file on the next file; the call starts with
\* extract_text and nothing computed
BeginFile ==
  /\ pc = "main"
  /\ file_num < Len(pdf_files)
  /\ file_num' = file_num + 1
  /\ doc' = pdf_files[file_num + 1]
  /\ pc' = "call_extract_text"
  /\ pages' = <<>>
  /\ front_matter_count' = 0
  /\ candidates' = <<>>
  /\ page_numbers' = {}
  /\ repeating_lines' = {}
  /\ removal' = {}
  /\ cleaned_pages' = <<>>
  /\ cleaned_text' = ""
  /\ formatted_lines' = <<>>
  /\ formatted_text' = ""
  /\ page_num' = 0
  /\ ocr_pages' = <<>>
  /\ notice' = [kind |-> "none", count |-> 0]
  /\ citation' = NoInfo
  /\ citation_header' = ""
  /\ result' = <<>>
  /\ UNCHANGED <<faithful, OCR_AVAILABLE, TESSERACT_INSTALLED, pdf_files, output_files, calls,
                 threadVars, pattern_order, updateVars>>

\* process_file after extract_text: None when there are no pages, else the
\* citation and its header
CheckPages ==
  /\ pc = "done_extract_text"
  /\ IF pages = <<>>
     THEN /\ result' = <<>>
          /\ pc' = "return_no_text"
          /\ UNCHANGED citeVars
     ELSE /\ citation' = extract_citation(doc.metadata, pages)
          /\ citation_header' = format_citation_header(extract_citation(doc.metadata, pages))
          /\ pc' = "start"
          /\ UNCHANGED result
  /\ UNCHANGED <<pages, faithful, cleanVars, formatted_lines, formatted_text, extractVars,
                 mainVars>>

\* process_file after format_for_tts: the header is put in front, then the
\* text is shown (preview), or written to <stem>_stripped.txt, which may fail
Deliver ==
  /\ pc = "formatted"
  /\ formatted_text' = IF citation_header # "" THEN citation_header \o formatted_text
                       ELSE formatted_text
  /\ \E preview \in BOOLEAN, write_fails \in BOOLEAN :
       IF preview THEN result' = <<>> /\ pc' = "return_preview"
       ELSE IF write_fails THEN result' = <<>> /\ pc' = "return_write_failed"
       ELSE result' = <<doc.name \o "_stripped.txt">> /\ pc' = "return_written"
  /\ UNCHANGED <<pages, faithful, cleanVars, formatted_lines, extractVars, citeVars, mainVars>>

\* A slip: the loop is left when a file gave no output
Collect_StopOnFailure ==
  /\ pc \in {"return_no_text", "empty", "return_preview", "return_write_failed", "return_written"}
  /\ calls' = Append(calls, [file |-> file_num, exit |-> pc, value |-> result])
  /\ output_files' = IF result # <<>> THEN Append(output_files, result[1]) ELSE output_files
  /\ pc' = IF result # <<>> THEN "main" ELSE "stopped"
  /\ UNCHANGED <<pages, faithful, cleanVars, formatted_lines, formatted_text, extractVars,
                 citeVars, result, pdf_files, file_num, threadVars, pattern_order, updateVars>>

\* main after process_file has returned: if result: output_files.append(result)
Collect ==
  /\ pc \in {"return_no_text", "empty", "return_preview", "return_write_failed", "return_written"}
  /\ calls' = Append(calls, [file |-> file_num, exit |-> pc, value |-> result])
  /\ output_files' = IF result # <<>> THEN Append(output_files, result[1]) ELSE output_files
  /\ pc' = "main"
  /\ UNCHANGED <<pages, faithful, cleanVars, formatted_lines, formatted_text, extractVars,
                 citeVars, result, pdf_files, file_num, threadVars, pattern_order, updateVars>>

NextFile ==
  \/ BeginFile
  \/ ExtractText
  \/ CheckPages
  \/ CleanDocument
  \/ FormatForTts
  \/ Deliver
  \/ Collect

\* Files: one that does not open, one without pages, one whose only page is
\* a download notice, a scan whose OCR raises, and an article
MaxFiles == 2

Files ==
  LET none == [raises |-> FALSE, title |-> <<>>, author |-> <<>>]
      page(t) == [text |-> t, ocr_raises |-> TRUE, ocr_text |-> ""]
  IN  {[name |-> "broken", opens |-> FALSE, metadata |-> none, pages |-> <<>>],
       [name |-> "hollow", opens |-> TRUE, metadata |-> none, pages |-> <<>>],
       [name |-> "notice", opens |-> TRUE, metadata |-> none,
        pages |-> <<page("This content downloaded from 128.1.2.3 on Mon, 01 Jan 2020 00:00:00 UTC")>>],
       [name |-> "scan", opens |-> TRUE, metadata |-> none, pages |-> <<page("")>>],
       [name |-> "article", opens |-> TRUE,
        metadata |-> [raises |-> FALSE, title |-> <<"On Method">>, author |-> <<"Ann Lee">>],
        pages |-> <<page("On Method\nThe body of the first page of the article goes on here."),
                    page("The body of the second page of the article goes on here too.")>>]}

InitFiles ==
  /\ pc = "main"
  /\ pdf_files \in UNION {[1..n -> Files] : n \in 1..MaxFiles}
  /\ file_num = 0
  /\ doc = [name |-> "", opens |-> FALSE,
            metadata |-> [raises |-> TRUE, title |-> <<>>, author |-> <<>>], pages |-> <<>>]
  /\ OCR_AVAILABLE \in BOOLEAN
  /\ TESSERACT_INSTALLED = OCR_AVAILABLE
  /\ pages = <<>>
  /\ faithful = FALSE
  /\ removal = {}
  /\ CURRENT_PROFILE \in {"cunty", "normie"}
  /\ Fresh

SpecFiles == InitFiles /\ [][NextFile]_vars

\* ------------------------------------------------------------------------
\* process_file stage by stage, with the threads of gray_spinner_with_task
\* ------------------------------------------------------------------------

\* extract_text(pdf_path) as a whole: no pages when the file does not open
extract_text(d, ocr_available) ==
  LET RECURSIVE from(_)
      from(k) == IF k > Len(d.pages) THEN <<>>
                 ELSE <<appended_text(d.pages[k], ocr_available)>> \o from(k + 1)
  IN  IF d.opens THEN from(1) ELSE <<>>

\* The stage process_file is about to call, by its position
StageAt ==
  [call_extract_text |-> "extract", call_extract_citation |-> "citation",
   call_clean_document |-> "clean", call_format_for_tts |-> "format"]

\* process_file calls the next stage function: in a new thread through
\* gray_spinner_with_task (normie profile; format_for_tts is never handed
\* to it), or directly
CallStage ==
  /\ pc \in DOMAIN StageAt
  /\ tasks' = Append(tasks, [stage |-> StageAt[pc], file |-> file_num, at |-> "ready",
                             threaded |-> CURRENT_PROFILE = "normie" /\ StageAt[pc] # "format",
                             value |-> <<>>])
  /\ pc' = "wait"
  /\ UNCHANGED <<pages, faithful, cleanVars, formatted_lines, formatted_text, extractVars,
                 citeVars, result, pdf_files, file_num, output_files, calls,
                 CURRENT_PROFILE, trace, pattern_order, updateVars>>

\* The stage function starts to run (task_func() in run_task, or the call itself)
RunTask ==
  \E t \in DOMAIN tasks :
    /\ tasks[t].at = "ready"
    /\ tasks' = [tasks EXCEPT ![t].at = "running"]
    /\ trace' = Append(trace, [file |-> tasks[t].file, stage |-> tasks[t].stage,
                               what |-> "start", returned |-> Len(calls)])
    /\ UNCHANGED <<pages, faithful, pc, cleanVars, formatted_lines, formatted_text,
                   extractVars, citeVars, result, pdf_files, file_num, output_files, calls,
                   CURRENT_PROFILE, pattern_order, updateVars>>

\* The stage function returns: result[0] = task_func(), and the thread ends
FinishTask ==
  \E t \in DOMAIN tasks :
    /\ tasks[t].at = "running"
    /\ LET stage == tasks[t].stage
           value == IF stage = "extract" THEN extract_text(pdf_files[tasks[t].file], OCR_AVAILABLE)
                    ELSE IF stage = "citation"
                         THEN extract_citation(pdf_files[tasks[t].file].metadata, pages)
                    ELSE IF stage = "clean" THEN clean_document(pages)
                    ELSE format_for_tts(cleaned_text, faithful)
       IN  tasks' = [tasks EXCEPT ![t].at = "done", ![t].value = value]
    /\ trace' = Append(trace, [file |-> tasks[t].file, stage |-> tasks[t].stage,
                               what |-> "return", returned |-> Len(calls)])
    /\ UNCHANGED <<pages, faithful, pc, cleanVars, formatted_lines, formatted_text,
                   extractVars, citeVars, result, pdf_files, file_num, output_files, calls,
                   CURRENT_PROFILE, pattern_order, updateVars>>

\* A slip: the spinner loop and the join do not wait for the thread
thread_finished_NoWait(task) == TRUE

\* while thread.is_alive(): ... ; thread.join()
thread_finished(task) == task.at = "done"

\* process_file goes on with what the stage returned: a direct call has
\* returned, or gray_spinner_with_task returns result[0] (None while the
\* thread has not set it)
Resume ==
  /\ pc = "wait"
  /\ LET task == tasks[Len(tasks)]
         set == task.at = "done"
     IN  /\ IF task.threaded THEN thread_finished(task) ELSE set
         /\ IF task.stage = "extract"
            THEN /\ pages' = IF set THEN task.value ELSE <<>>
                 /\ pc' = IF set /\ task.value # <<>> THEN "call_extract_citation"
                          ELSE "return_no_text"
                 /\ UNCHANGED <<cleaned_text, formatted_lines, formatted_text, citeVars>>
            ELSE IF task.stage = "citation"
            THEN /\ IF set
                    THEN /\ citation' = task.value
                         /\ citation_header' = format_citation_header(task.value)
                         /\ pc' = "call_clean_document"
                    ELSE /\ pc' = "raised"
                         /\ UNCHANGED citeVars
                 /\ UNCHANGED <<pages, cleaned_text, formatted_lines, formatted_text>>
            ELSE IF task.stage = "clean"
            THEN /\ cleaned_text' = IF set THEN task.value ELSE ""
                 /\ pc' = IF set /\ task.value # "" THEN "call_format_for_tts" ELSE "empty"
                 /\ UNCHANGED <<pages, formatted_lines, formatted_text, citeVars>>
            ELSE /\ formatted_lines' = heading_step(cleaned_text)
                 /\ formatted_text' = task.value
                 /\ pc' = "formatted"
                 /\ UNCHANGED <<pages, cleaned_text, citeVars>>
  /\ result' = <<>>
  /\ UNCHANGED <<faithful, front_matter_count, candidates, page_numbers, repeating_lines,
                 removal, cleaned_pages, extractVars, mainVars>>

NextStage ==
  \/ BeginFile
  \/ CallStage
  \/ RunTask
  \/ FinishTask
  \/ Resume
  \/ Deliver
  \/ Collect

InitStages ==
  /\ pc = "main"
  /\ pdf_files \in UNION {[1..n -> Files] : n \in 1..MaxFiles}
  /\ file_num = 0
  /\ doc = [name |-> "", opens |-> FALSE,
            metadata |-> [raises |-> TRUE, title |-> <<>>, author |-> <<>>], pages |-> <<>>]
  /\ OCR_AVAILABLE \in BOOLEAN
  /\ TESSERACT_INSTALLED = OCR_AVAILABLE
  /\ pages = <<>>
  /\ faithful \in BOOLEAN
  /\ removal = {}
  /\ CURRENT_PROFILE \in {"cunty", "normie"}
  /\ Fresh

SpecStages == InitStages /\ [][NextStage]_vars

\* ------------------------------------------------------------------------
\* Three pages that end in 12, 13, 14, with download footers
\* ------------------------------------------------------------------------

MaxBodyLines == 2

DukeFooter == "Downloaded from https://read.dukeupress.edu/x"

\* Page k of such a document: its body lines, the footer if it has one, and
\* its number as the last line
NumberedPage(body, footer, k) ==
  Join(body \o (IF footer THEN <<DukeFooter>> ELSE <<>>) \o <<<<"12", "13", "14">>[k]>>, "\n")

\* The footer is on the first page only, or on every page
InitNumbered ==
  /\ pc = "start"
  /\ \E all \in BOOLEAN :
       \E bodies \in [1..3 -> UNION {[1..n -> {"The body of the text.", "13"}]
                                     : n \in 0..MaxBodyLines}] :
         pages = <<NumberedPage(bodies[1], TRUE, 1), NumberedPage(bodies[2], all, 2),
                   NumberedPage(bodies[3], all, 3)>>
  /\ faithful = FALSE
  /\ removal = {}
  /\ Blank

SpecNumbered == InitNumbered /\ [][CleanDocument]_vars

\* ------------------------------------------------------------------------
\* clean_page with the pattern list in another order
\* ------------------------------------------------------------------------

MaxOrderLines == 2

\* The loop of clean_page over the pattern list: matched is set at the
\* first pattern of scope "line" that is found in the line, and the loop is left
RECURSIVE matched_from(_, _, _)
matched_from(order, line, k) ==
  IF k > Len(order) THEN FALSE
  ELSE IF /\ METADATA_PATTERNS[order[k]].scope = "line"
          /\ ReSearch(METADATA_PATTERNS[order[k]].pattern, line)
       THEN TRUE
       ELSE matched_from(order, line, k + 1)

\* A slip: no break, and matched is assigned at every pattern
matched_LastPattern(order, line) ==
  /\ METADATA_PATTERNS[order[Len(order)]].scope = "line"
  /\ ReSearch(METADATA_PATTERNS[order[Len(order)]].pattern, line)

matched(order, line) == matched_from(order, line, 1)

\* clean_page(text, repeating_lines) with METADATA_PATTERNS in the given order
clean_page_in(order, text, removal_set) ==
  LET Kept(line) == ~matched(order, line) /\ Strip(StrLower(line)) \notin removal_set
  IN  Join(SelectSeq(SplitLines(text), Kept), "\n")

CleanPageInOrder ==
  /\ pc = "call_clean_page_in_order"
  /\ cleaned_pages' = <<clean_page_in(pattern_order, pages[1], removal)>>
  /\ pc' = "done_clean_page_in_order"
  /\ UNCHANGED <<pages, faithful, front_matter_count, candidates, page_numbers,
                 repeating_lines, removal, cleaned_text, formatted_lines,
                 formatted_text, extractVars, citeVars, result, mainVars>>

\* The list turned round by r places, with two neighbours exchanged, and
\* back to front; the lines are hit by no pattern, by one, and by two
InitOrder ==
  LET n == Len(METADATA_PATTERNS)
      turned(r) == [k \in 1..n |-> ((k + r - 1) % n) + 1]
      exchanged(j) == [k \in 1..n |-> IF k = j THEN j + 1 ELSE IF k = j + 1 THEN j ELSE k]
      lines == {"", "Running Head", "This content downloaded from 128.1.2.3",
                "Downloaded from https://read.dukeupress.edu/x by DUKE user"}
  IN  /\ pc = "call_clean_page_in_order"
      /\ pages \in {<<Join(ls, "\n")>> :
                      ls \in UNION {[1..m -> lines] : m \in 1..MaxOrderLines}}
      /\ removal \in {{}, {"running head"}}
      /\ faithful = FALSE
      /\ front_matter_count = 0
      /\ candidates = <<>>
      /\ page_numbers = {}
      /\ repeating_lines = {}
      /\ cleaned_pages = <<>>
      /\ cleaned_text = ""
      /\ formatted_lines = <<>>
      /\ formatted_text = ""
      /\ page_num = 0
      /\ ocr_pages = <<>>
      /\ notice = [kind |-> "none", count |-> 0]
      /\ citation = NoInfo
      /\ citation_header = ""
      /\ result = <<>>
      /\ output_files = <<>>
      /\ calls = <<>>
      /\ tasks = <<>>
      /\ trace = <<>>
      /\ NoFile
      /\ NoRelease
      /\ pattern_order \in {turned(r) : r \in 0..(n - 1)}
                            \cup {exchanged(j) : j \in 1..(n - 1)}
                            \cup {[k \in 1..n |-> n + 1 - k]}

SpecOrder == InitOrder /\ [][CleanPageInOrder]_vars

\* ------------------------------------------------------------------------
\* First pages for the title guess
\* ------------------------------------------------------------------------

MaxTitleLines == 2

\* No title in the metadata; 0, 9 or 10 short lines, then lines the guess
\* takes and lines it skips: of 19 and of 20 characters, a number, a small
\* first letter, a digit or a bracket first, a comma last, a chapter line, a
\* download notice
InitTitle ==
  LET pool == {"An Essay on the Nature of Things", "Nineteen chars line",
               "A twenty chars line.", "12345678901234567890",
               "an essay on the nature of things", "2020 Survey of the Nature of Things",
               "(On the Nature of Things) Revisited", "An Essay on the Nature of Things,",
               "Chapter One of the long story here", "This content downloaded from 128.1.2.3"}
  IN  /\ pc = "call_extract_citation"
      /\ doc \in [name : {"a"}, opens : {TRUE}, pages : {<<>>},
                   metadata : {[raises |-> TRUE, title |-> <<>>, author |-> <<>>],
                               [raises |-> FALSE, title |-> <<"Untitled">>, author |-> <<"Al">>]}]
      /\ pdf_files = <<>>
      /\ file_num = 0
      /\ pages \in {<<Join([k \in 1..short |-> "x"] \o ls, "\n"), "second page">> :
                      short \in {0, TitleLines - 1, TitleLines},
                      ls \in UNION {[1..n -> pool] : n \in 1..MaxTitleLines}}
      /\ OCR_AVAILABLE = FALSE
      /\ TESSERACT_INSTALLED = FALSE
      /\ CURRENT_PROFILE = "cunty"
      /\ faithful = FALSE
      /\ removal = {}
      /\ Fresh

SpecTitle == InitTitle /\ [][ExtractCitation]_vars

\* ------------------------------------------------------------------------
\* First pages with a journal header of a given length
\* ------------------------------------------------------------------------

MaxJournalLen == 101

\* One line of 8 to MaxJournalLen characters: capitals that end in JOURNAL,
\* the same with a small first letter, and capitals without the word
InitJournal ==
  /\ pc = "call_extract_citation"
  /\ doc = [name |-> "a", opens |-> TRUE, pages |-> <<>>,
            metadata |-> [raises |-> TRUE, title |-> <<>>, author |-> <<>>]]
  /\ pdf_files = <<>>
  /\ file_num = 0
  /\ \E n \in 8..MaxJournalLen :
       \E line \in {Repeat("A", n - 7) \o "JOURNAL", "a" \o Repeat("A", n - 8) \o "JOURNAL",
                     Repeat("A", n)} :
         pages = <<line, "second page">>
  /\ OCR_AVAILABLE = FALSE
  /\ TESSERACT_INSTALLED = FALSE
  /\ CURRENT_PROFILE = "cunty"
  /\ faithful = FALSE
  /\ removal = {}
  /\ Fresh

SpecJournal == InitJournal /\ [][ExtractCitation]_vars

\* ------------------------------------------------------------------------
\* Short documents
\* ------------------------------------------------------------------------

MaxShortPages == 2

\* A front-matter page or none, then pages full of numbers and of lines the
\* pages share, one of them with a line of the library
InitShort ==
  LET pool == {"1\n2\n3", "2\n3\n4", "Head\nw\n1", "Head\nw\n2", "3",
               "Head\nhttp://a\n4\nw\nw\nw\n5"}
  IN  /\ pc = "start"
      /\ \E front \in {<<>>, <<"Recommended Citation\nSmith 2020">>} :
           \E rest \in UNION {[1..n -> pool] : n \in 1..MaxShortPages} :
             pages = front \o rest
      /\ faithful = FALSE
      /\ removal = {}
      /\ Blank

SpecShort == InitShort /\ [][CleanDocument]_vars

\* ------------------------------------------------------------------------
\* Pages with paragraph breaks, a running head and page numbers
\* ------------------------------------------------------------------------

MaxBreaks == 1

\* Three pages: the head, 0 to MaxBreaks blank or white lines, five lines of
\* text of the page's own, and the page number, bare or indented
InitBreaks ==
  LET gaps == UNION {[1..n -> {"", " \t"}] : n \in 0..MaxBreaks}
      page(head, gap, body, num) == Join(<<head>> \o gap \o body \o <<num>>, "\n")
  IN  /\ pc = "start"
      /\ \E g1 \in gaps, g2 \in gaps, g3 \in gaps :
           \E first \in {"12", " 12 "}, head \in {"Head", " HEAD "} :
             pages = <<page("Head", g1, <<"a", "b", "", "c", "d", "e">>, first),
                       page(head, g2, <<"f", "g", "h", "i", "j">>, "13"),
                       page("Head", g3, <<"k", "l", "", "m", "n", "o">>, "14")>>
      /\ faithful = FALSE
      /\ removal = {}
      /\ Blank

SpecBreaks == InitBreaks /\ [][CleanDocument]_vars

\* ------------------------------------------------------------------------
\* format_for_tts applied to its own result
\* ------------------------------------------------------------------------

\* format_for_tts called on what the call before returned, same faithful flag
FormatAgain ==
  /\ pc = "done_format"
  /\ pages' = <<formatted_text>>
  /\ formatted_lines' = heading_step(formatted_text)
  /\ formatted_text' = format_for_tts(formatted_text, faithful)
  /\ pc' = "done_format_again"
  /\ UNCHANGED <<faithful, cleanVars, extractVars, citeVars, result, mainVars>>

MaxReformatTokens == 3

\* Texts of capitals, small letters, abbreviations, digits, white space and
\* line ends
InitReformat ==
  /\ pc = "call_format"
  /\ pages \in {<<t>> : t \in TextsOf({"ABCD ", "CF.", "p.", "1", "a", ".", " ", "\n"},
                                       MaxReformatTokens)}
  /\ faithful \in BOOLEAN
  /\ removal = {}
  /\ Blank

SpecReformat == InitReformat /\ [][FormatCall \/ FormatAgain]_vars

\* ------------------------------------------------------------------------
\* check_for_updates
\* ------------------------------------------------------------------------

\* a > b of two str: the first place where they differ decides, by code
\* point; a text is greater than each of its proper beginnings.  The
\* characters of a version are listed in the order of their code points.
StrGreater(a, b) ==
  LET order == ".0123456789v"
      ord(c) == CHOOSE i \in 1..Len(order) : Char(order, i) = c
      same == {n \in 0..Min2(Len(a), Len(b)) : SubSeq(a, 1, n) = SubSeq(b, 1, n)}
      n == SetMax(same)
  IN  IF n = Len(b) THEN Len(a) > n
      ELSE IF n = Len(a) THEN FALSE
      ELSE ord(Char(a, n + 1)) > ord(Char(b, n + 1))

\* tag_name.lstrip("v")
LStripV(tag) == SubSeq(tag, RunStop(Chr({"v"}), tag, 1), Len(tag))

\* check_for_updates: nothing when the request fails or there is no tag;
\* an update is announced when latest_version > VERSION
CheckForUpdates ==
  /\ pc = "call_check_for_updates"
  /\ IF release.fails
     THEN UNCHANGED <<latest_version, update_offered>>
     ELSE /\ latest_version' = LStripV(release.tag_name)
          /\ update_offered' = (LStripV(release.tag_name) # ""
                                 /\ StrGreater(LStripV(release.tag_name), VERSION))
  /\ pc' = "done_check_for_updates"
  /\ UNCHANGED <<pages, faithful, cleanVars, formatted_lines, formatted_text, extractVars,
                 citeVars, result, pdf_files, file_num, output_files, calls, threadVars,
                 pattern_order, VERSION, release>>

MaxPart == 10

\* Versions major.minor.patch with each part 0, 1, MaxPart - 1 or MaxPart,
\* for the running version and for the tag, which may begin with "v"; a
\* release without tag, and a request that fails
InitUpdates ==
  LET RECURSIVE str(_)
      str(n) == IF n < 10 THEN Char(DigitChars, n + 1)
                ELSE str(n \div 10) \o Char(DigitChars, (n % 10) + 1)
      parts == {0, 1, MaxPart - 1, MaxPart}
      versions == {str(a) \o "." \o str(b) \o "." \o str(c) : a \in parts, b \in parts, c \in parts}
  IN  /\ pc = "call_check_for_updates"
      /\ VERSION \in versions
      /\ release \in [fails : {FALSE}, tag_name : versions \cup {"v" \o v : v \in versions} \cup {""}]
                       \cup {[fails |-> TRUE, tag_name |-> ""]}
      /\ latest_version = ""
      /\ update_offered = FALSE
      /\ pages = <<>>
      /\ faithful = FALSE
      /\ removal = {}
      /\ front_matter_count = 0
      /\ candidates = <<>>
      /\ page_numbers = {}
      /\ repeating_lines = {}
      /\ cleaned_pages = <<>>
      /\ cleaned_text = ""
      /\ formatted_lines = <<>>
      /\ formatted_text = ""
      /\ page_num = 0
      /\ ocr_pages = <<>>
      /\ notice = [kind |-> "none", count |-> 0]
      /\ citation = NoInfo
      /\ citation_header = ""
      /\ result = <<>>
      /\ output_files = <<>>
      /\ calls = <<>>
      /\ tasks = <<>>
      /\ trace = <<>>
      /\ pattern_order = SourceOrder
      /\ NoFile

SpecUpdates == InitUpdates /\ [][CheckForUpdates]_vars

\* ------------------------------------------------------------------------
\* Properties
\* ------------------------------------------------------------------------

\* The n-th smallest member of a set of numbers
NthOf(S, n) == CHOOSE i \in S : Cardinality({j \in S : j <= i}) = n

\* The members of seq at the indices of S, in their order in seq
Pick(seq, S) == [n \in 1..Cardinality(S) |-> seq[NthOf(S, n)]]

\* Some entry of the Pattern Library is found somewhere in the line
LibraryHit(line) ==
  \E k \in DOMAIN METADATA_PATTERNS : ReSearch(METADATA_PATTERNS[k].pattern, line)

\* C1: clean_page returns exactly the lines of the text, in their order,
\* that match no Pattern Library entry and whose lower-cased, trimmed form
\* is not in the removal set.
C1_CleanPageExact ==
  pc = "done_clean_page" =>
    LET input == SplitLines(pages[1])
        kept == {i \in DOMAIN input :
                   ~LibraryHit(input[i]) /\ Strip(StrLower(input[i])) \notin removal}
    IN  cleaned_pages = <<Join(Pick(input, kept), "\n")>>

\* A padded upper-case header and a bare URL are dropped, prose that only
\* mentions a URL survives
C1_Witness ==
  /\ pc = "done_clean_page"
  /\ pages = <<"  RUNNING HEAD \nhttp://a\nSee http://a">>
  /\ removal = {"running head"}
  /\ cleaned_pages = <<"See http://a">>

\* The lower-cased, trimmed form of a line
Normal(line) == Strip(StrLower(line))

\* The pages clean_document works on once the front matter is dropped
Remaining == SubSeq(pages, front_matter_count + 1, Len(pages))

\* The normalized lines among the first 5 and the last 5 non-blank lines
HeadOrFoot(page_text) ==
  LET lines == NonBlankLines(page_text)
  IN  {Normal(lines[i]) : i \in {j \in DOMAIN lines : j <= 5 \/ j > Len(lines) - 5}}

\* The pairs (page, line) of the normalized lines each page shows there
Shown(pgs) == UNION {{<<p, line>> : line \in HeadOrFoot(pgs[p])} : p \in DOMAIN pgs}

\* The pairs (page, line) of the lines each page is made of
Written(pgs) == UNION {{<<p, SplitLines(pgs[p])[i]>> : i \in DOMAIN SplitLines(pgs[p])} : p \in DOMAIN pgs}

\* The number of pages a line is paired with
PageCount(pairs, line) == Cardinality({pr[1] : pr \in {q \in pairs : q[2] = line}})

\* count >= max(3, 40% of total), the 40% taken as it is
Qualifies(count, total) == count >= 3 /\ 10 * count >= 4 * total

\* C2: detect_repeating_lines returns a normalized line if and only if the
\* number of pages that show it among their first 5 or last 5 non-blank
\* lines is at least max(3, 40% of the number of pages), not rounded down.
C2_RepeatingIff ==
  pc = "cleaned" =>
    LET shown == Shown(Remaining)
    IN  \A line \in repeating_lines \cup {pr[2] : pr \in shown} :
          line \in repeating_lines <=> Qualifies(PageCount(shown, line), Len(Remaining))

\* The normalized lines some page shows among its first 5 or last 5
ShownLines == {pr[2] : pr \in Shown(Remaining)}

\* Those of the given lines that a qualifying number of pages show are in
\* no cleaned page, in any letter case
HeadersRemoved(lines) ==
  LET shown == Shown(Remaining)
      kept == {Normal(pr[2]) : pr \in Written(cleaned_pages)}
  IN  \A line \in lines :
        Qualifies(PageCount(shown, line), Len(Remaining)) => line \notin kept

\* A line on at most 2 pages that matches no Pattern Library entry and is
\* no detected page number is retained on its page
RareLinesRetained ==
  LET written == Written(Remaining)
      normal == {<<pr[1], Normal(pr[2])>> : pr \in written}
  IN  \A pr \in written :
        (/\ PageCount(normal, Normal(pr[2])) <= 2
         /\ ~LibraryHit(pr[2])
         /\ Normal(pr[2]) \notin page_numbers)
          => pr \in Written(cleaned_pages)

IsNumberLine(line) ==
  Len(line) \in 1..4 /\ \A i \in 1..Len(line) : Char(line, i) \in Digit

\* The recorded candidates of one position, in page order
GroupAt(line_pos) == SelectSeq(candidates, LAMBDA c : c[2] = line_pos)

\* The adjacent pairs of a group whose value rises by 1 to 5
RisingPairs(group) ==
  {i \in 1..(Len(group) - 1) :
     group[i + 1][3] > group[i][3] /\ group[i + 1][3] - group[i][3] <= 5}

\* At least 3 candidates, and at least 60% of the adjacent pairs rising
GroupQualifies(group) ==
  Len(group) >= 3 /\ 10 * Cardinality(RisingPairs(group)) >= 6 * (Len(group) - 1)

\* C4: the strings of a position group are in the removal set if and only
\* if the group has at least 3 candidates and at least 60% of its adjacent
\* pairs, in page order, rise by at most 5.
C4_GroupQualifiesIff ==
  pc = "done_detect_page_numbers" =>
    page_numbers =
      UNION {{GroupAt(line_pos)[i][4] : i \in DOMAIN GroupAt(line_pos)} :
               line_pos \in {l \in {candidates[k][2] : k \in DOMAIN candidates} :
                               GroupQualifies(GroupAt(l))}}

\* The last non-blank line of a page
LastLine(page_text) == NonBlankLines(page_text)[Len(NonBlankLines(page_text))]

\* C5: when the last non-blank lines of N >= 3 pages are consecutive
\* standalone numbers, detect_page_numbers returns all N of them, however
\* many other lines the pages have.
C5_LastLineNumbers ==
  pc = "done_detect_page_numbers" =>
    ((/\ Len(pages) >= 3
      /\ \A p \in DOMAIN pages :
           NonBlankLines(pages[p]) # <<>> /\ IsNumberLine(LastLine(pages[p]))
      /\ \A p \in 1..(Len(pages) - 1) :
           StrToInt(LastLine(pages[p + 1])) = StrToInt(LastLine(pages[p])) + 1)
       => \A p \in DOMAIN pages : LastLine(pages[p]) \in page_numbers)

\* C6: every number line among the first 3 and the last 3 non-blank lines
\* of a page is recorded as a candidate exactly once, also on pages of 1 or
\* 2 lines and where the two windows overlap.
C6_RecordedOnce ==
  pc = "done_detect_page_numbers" =>
    \A p \in DOMAIN pages :
      LET lines == NonBlankLines(pages[p])
      IN  \A i \in DOMAIN lines :
            ((i <= 3 \/ i > Len(lines) - 3) /\ IsNumberLine(lines[i]))
              => Cardinality({k \in DOMAIN candidates :
                                candidates[k][1] = p - 1 /\ candidates[k][2] = i - 1}) = 1

\* Some marker phrase is in the lower-cased text
HasMarker(text) ==
  \E phrase \in {"jstor is a not-for-profit", "escholarship.org", "chicago unbound",
                 "follow this and additional works", "stable url:", "recommended citation"} :
    \E i \in 1..Len(text) :
      i + Len(phrase) - 1 <= Len(text) /\ StrLower(SubSeq(text, i, i + Len(phrase) - 1)) = phrase

\* The lines of a text, as a set
LinesOf(text) == {SplitLines(text)[i] : i \in DOMAIN SplitLines(text)}

\* C7: the front matter count is 1 exactly when there is a page 0 that
\* holds a marker phrase and has fewer than 500 characters, and 0 otherwise;
\* clean_document drops page 0 then and no other page.
C7_FrontMatterCount ==
  pc = "cleaned" =>
    /\ front_matter_count =
         IF pages # <<>> /\ HasMarker(pages[1]) /\ Len(pages[1]) < 500 THEN 1 ELSE 0
    /\ Len(cleaned_pages) = Len(pages) - front_matter_count
    /\ \A p \in DOMAIN cleaned_pages :
         LinesOf(cleaned_pages[p]) \subseteq LinesOf(pages[p + front_matter_count])

\* A first page of 499 characters with a marker is dropped, the second kept
C7_Witness ==
  /\ pc = "cleaned"
  /\ Len(pages) = 2
  /\ Len(pages[1]) = 499
  /\ HasMarker(pages[1])
  /\ front_matter_count = 1
  /\ cleaned_pages = <<"Second page">>

\* Every line of every remaining page is blank, matches the Pattern Library
\* or normalizes to a member of the removal set
NothingSurvives ==
  \A pr \in Written(Remaining) :
    Normal(pr[2]) = "" \/ LibraryHit(pr[2]) \/ Normal(pr[2]) \in removal

\* C8: clean_document returns the empty string when the page list is empty,
\* when no page remains after the front matter, and when every line of the
\* remaining pages is removed or blank; otherwise a non-empty string.
C8_EmptyIff ==
  pc = "cleaned" =>
    (cleaned_text = "" <=> (pages = <<>> \/ Remaining = <<>> \/ NothingSurvives))

\* Three pages that are their running header and nothing else
C8_Witness ==
  /\ pc = "cleaned"
  /\ pages = <<"Head", "Head", "Head">>
  /\ removal = {"head"}
  /\ cleaned_text = ""

\* C9: after the hyphenation repair no hyphen at the end of a line, after
\* a word, is followed on the next line by a word that starts in lower
\* case, also when two such breaks follow one another.
C9_NoBreakRemains ==
  pc = "cleaned" =>
    \A i \in 1..Len(cleaned_text) :
      ~(/\ i + 3 <= Len(cleaned_text)
        /\ Char(cleaned_text, i) \in WordCh
        /\ SubSeq(cleaned_text, i + 1, i + 2) = "-\n"
        /\ Char(cleaned_text, i + 3) \in Lower)

\* No run of three newlines, no white space at either end
Tidy(text) ==
  /\ \A i \in 1..Len(text) : ~(i + 2 <= Len(text) /\ SubSeq(text, i, i + 2) = "\n\n\n")
  /\ text # "" => Char(text, 1) \notin Space /\ Char(text, Len(text)) \notin Space

\* C10: the strings clean_document and format_for_tts return have no run of
\* three or more newlines and no leading or trailing white space.
C10_OutputsTidy ==
  /\ pc \in {"cleaned", "formatted", "empty"} => Tidy(cleaned_text)
  /\ pc \in {"formatted", "done_format"} => Tidy(formatted_text)

\* A heading before a blank line: marking it puts a newline first and
\* three in a row, which the result no longer has
C10_Witness ==
  /\ pc = "done_format"
  /\ pages = <<"B\n\na">>
  /\ formatted_text = "B.\n\na"

\* ------------------------------------------------------------------------
\* Headings and abbreviations of format_for_tts
\* ------------------------------------------------------------------------

\* The trimmed line is fully upper-case: it has a capital and no small letter
FullyUpper(t) ==
  /\ \E i \in 1..Len(t) : Char(t, i) \in Upper
  /\ \A i \in 1..Len(t) : Char(t, i) \notin Lower

\* The four conditions on the trimmed text of a line
HeadingByRule(line) ==
  LET t == Strip(line)
      capitals == Cardinality({i \in 1..Len(t) : Char(t, i) \in Upper})
  IN  /\ Len(t) > 0
      /\ Len(t) < 100
      /\ FullyUpper(t) \/ (Char(t, 1) \in Upper /\ capitals * 100 > 30 * Len(t))
      /\ Char(t, Len(t)) \notin {".", "!", "?", ":", ";", ","}

\* What the heading step makes of the lines from the k-th on
RECURSIVE StepByRule(_, _)
StepByRule(lines, k) ==
  IF k > Len(lines) THEN <<>>
  ELSE (IF HeadingByRule(lines[k]) THEN <<"", Strip(lines[k]) \o ".", "">> ELSE <<lines[k]>>)
       \o StepByRule(lines, k + 1)

\* C11: format_for_tts treats a line as a heading exactly when its trimmed
\* text is non-empty, shorter than 100 characters, fully upper-case or
\* starting with a capital with more than 30% capitals, and not ending in
\* one of . ! ? : ; ,  A heading becomes a blank line, the trimmed text with
\* a period, and a blank line; every other line is passed through unchanged.
C11_HeadingIff ==
  pc = "done_format" => formatted_lines = StepByRule(SplitLines(pages[1]), 1)

\* A heading after a line of exactly 30% capitals, which is passed through
C11_Witness ==
  /\ pc = "done_format"
  /\ pages = <<"ABCdefghij\n  Abc  ">>
  /\ formatted_lines = <<"ABCdefghij", "", "Abc.", "">>

\* The line is empty or white space only
BlankLine(line) == Strip(line) = ""

\* The text has the line t as a line of its own with a blank line, or
\* nothing, before it and after it
SetApart(text, t) ==
  LET out == SplitLines(text)
  IN  \E j \in 1..Len(out) :
        /\ out[j] = t
        /\ j = 1 \/ BlankLine(out[j - 1])
        /\ j = Len(out) \/ BlankLine(out[j + 1])

\* C12: for every line format_for_tts confirms as a heading, the returned
\* text has the trimmed line followed by a period as a line of its own, set
\* apart by blank lines from the lines before and after it, with faithful
\* true and with faithful false.
C12_HeadingSetApart ==
  pc = "done_format" =>
    \A line \in LinesOf(pages[1]) :
      HeadingByRule(line) => SetApart(formatted_text, Strip(line) \o ".")

\* C13: the abbreviation expansion of format_for_tts is idempotent: the
\* seven replacements applied to a text that is already expanded change
\* nothing.
C13_ExpansionIdempotent ==
  pc = "done_expand_again" => formatted_text = pages[1]

\* "pp. 7" was expanded by the first pass, and the second pass leaves the
\* result as it is
C13_Witness ==
  /\ pc = "done_expand_again"
  /\ pages = <<"pages 7">>
  /\ formatted_text = "pages 7"

\* How many times the pattern re occurs in s, which has no "~"
Occurrences(re, s) ==
  LET marked == ReSub(re, "~", s)
  IN  Cardinality({i \in 1..Len(marked) : Char(marked, i) = "~"})

\* The abbreviations at a word boundary, and what each is expanded to
Abbreviated ==
  << Cat(<<WordB, LitI("et al.")>>), Cat(<<WordB, LitI("ibid.")>>), Cat(<<WordB, LitI("cf.")>>),
     Cat(<<WordB, LitI("e.g.")>>), Cat(<<WordB, LitI("i.e.")>>),
     Cat(<<WordB, LitI("p."), Rep(Chr(Space), 0, Unbounded), Rep(Chr(Digit), 1, Unbounded)>>),
     Cat(<<WordB, LitI("pp."), Rep(Chr(Space), 0, Unbounded), Rep(Chr(Digit), 1, Unbounded)>>) >>

Expanded ==
  << Lit("and others"), Lit("same source"), Lit("compare"), Lit("for example"), Lit("that is"),
     Cat(<<Lit("page "), Rep(Chr(Digit), 1, Unbounded)>>),
     Cat(<<Lit("pages "), Rep(Chr(Digit), 1, Unbounded)>>) >>

\* The lines of the text that are not headings, kept apart by a line of
\* their own that no abbreviation reaches across
PlainLines(text) ==
  Join(SelectSeq(SplitLines(text), LAMBDA line : ~HeadingByRule(line)), "\n@\n")

\* "i.e." and "e.g." sharing their "e.": the only way two of the
\* abbreviations overlap
Overlapping(text) == ReSearch(Cat(<<WordB, LitI("i.e.g.")>>), text)

\* C14: with faithful true format_for_tts does no abbreviation expansion:
\* its result is the heading marking, newline collapsing and trimming, so
\* every abbreviation on a non-heading line stays as written; with faithful
\* false every occurrence of an abbreviation at a word boundary on a
\* non-heading line is replaced by its expansion, so the result has at
\* least as many of each expansion as the lines had of the abbreviation.
C14_FaithfulFrame ==
  pc = "done_format" =>
    /\ faithful =>
         /\ formatted_text = Strip(collapse_newlines(Join(StepByRule(SplitLines(pages[1]), 1), "\n")))
         /\ \A k \in DOMAIN Abbreviated :
              Occurrences(Abbreviated[k], formatted_text)
                >= Occurrences(Abbreviated[k], PlainLines(pages[1]))
    /\ ~faithful /\ ~Overlapping(pages[1]) =>
         \A k \in DOMAIN Abbreviated :
           Occurrences(Expanded[k], formatted_text)
             >= Occurrences(Abbreviated[k], PlainLines(pages[1]))

\* ------------------------------------------------------------------------
\* Citation
\* ------------------------------------------------------------------------

\* The field holds a non-empty string
Present(field) == Len(field) = 1 /\ Len(field[1]) > 0

\* C15: format_citation_header returns a non-empty header exactly when the
\* citation has a non-empty title and a non-empty author, source or date; a
\* citation without a title, or with a title only, gets the empty string,
\* and one with title and date only gets a header of two parts, the title
\* line and the date line.
C15_HeaderGate ==
  pc = "done_format_citation_header" =>
    /\ citation_header # ""
         <=> /\ Present(citation.title)
             /\ Present(citation.author) \/ Present(citation.source) \/ Present(citation.date)
    /\ /\ Present(citation.title) /\ Present(citation.date)
       /\ ~Present(citation.author) /\ ~Present(citation.source)
       => /\ Len(SplitLines(citation_header)) >= 3
          /\ SubSeq(SplitLines(citation_header), 1, 3) = <<citation.title[1], citation.date[1], "">>

\* A title and a date, the author None and the source empty
C15_Witness ==
  /\ pc = "done_format_citation_header"
  /\ citation = [title |-> <<"On Method">>, author |-> <<>>, date |-> <<"2020">>, source |-> <<"">>]
  /\ citation_header = "On Method\n2020\n\n" \o Repeat("-", 40) \o "\n\n"

\* What step 1 of extract_citation accepts from the embedded metadata
Accepted == info_from_metadata(doc.metadata)

\* C16: a title or an author that extract_citation accepts from the embedded
\* metadata is the title or the author of the record it returns, whatever
\* the first page holds: no later rule replaces a field that is set.
C16_MetadataKept ==
  pc = "done_extract_citation" =>
    /\ Accepted.title # <<>> => citation.title = Accepted.title
    /\ Accepted.author # <<>> => citation.author = Accepted.author

\* Metadata title and author are kept over a first page whose ProQuest line
\* names another title and author; the date comes from that line
C16_Witness ==
  /\ pc = "done_extract_citation"
  /\ pages = <<"Lee, Ann. On Method : A Study, Duke Press, 2020. ProQuest Ebook Central.",
               "second page">>
  /\ citation = [title |-> <<"On Being">>, author |-> <<"Jo Day">>, date |-> <<"2020">>,
                 source |-> <<>>]

\* The author groups the ProQuest parse captures on the first page
ProQuestAuthors ==
  IF pages = <<>> THEN {}
  ELSE {<<Strip(proquest_match(line).group1)>> :
          line \in {Strip(l) : l \in {x \in LinesOf(pages[1]) : proquest_match(Strip(x)).matched}}}

\* C17: the author extract_citation returns is absent, the validated
\* metadata author, or the author group of the ProQuest citation line; no
\* other rule sets it.
C17_AuthorSources ==
  pc = "done_extract_citation" =>
    citation.author \in {<<>>, Accepted.author} \cup ProQuestAuthors

\* No metadata author: the ProQuest line gives the author, and the title
\* guess, which takes the next line for the title, leaves the author alone
C17_Witness ==
  /\ pc = "done_extract_citation"
  /\ pages = <<"Ray, Bo.  , Duke Press, 1999. ProQuest\nAn Essay on the Nature of Things",
               "second page">>
  /\ citation = [title |-> <<"An Essay on the Nature of Things">>, author |-> <<"Ray, Bo">>,
                 date |-> <<"1999">>, source |-> <<>>]

\* ------------------------------------------------------------------------
\* Extraction
\* ------------------------------------------------------------------------

\* The page's stripped text layer has fewer than 50 characters
ShortPage(k) == Len(Strip(doc.pages[k].text)) < 50

\* Page k is in the list the closing notice counts
Recorded(k) == \E i \in DOMAIN ocr_pages : ocr_pages[i] = k

\* C18: in extract_text, a page with fewer than 50 stripped characters
\* keeps its extracted text and is recorded in the list of the closing
\* scanned-page notice when OCR is unavailable or raises, and gets the OCR
\* result as its text when OCR succeeds; a page with 50 or more stripped
\* characters is never sent to OCR.
C18_OcrFallback ==
  pc = "done_extract_text" /\ doc.opens =>
    \A k \in DOMAIN doc.pages :
      /\ ShortPage(k) /\ (~OCR_AVAILABLE \/ doc.pages[k].ocr_raises)
           => pages[k] = doc.pages[k].text /\ Recorded(k)
      /\ ShortPage(k) /\ OCR_AVAILABLE /\ ~doc.pages[k].ocr_raises
           => pages[k] = doc.pages[k].ocr_text
      /\ ~ShortPage(k) => pages[k] = doc.pages[k].text /\ ~Recorded(k)

\* C19: when the document opens, extract_text returns exactly one string
\* per page, in page order, whichever pages hit an OCR failure or go
\* without OCR: a failure on one page neither stops nor skips the pages
\* after it nor shortens the result.
C19_OneStringPerPage ==
  /\ pc = "extract_page" => Len(pages) = page_num
  /\ pc = "done_extract_text" /\ doc.opens =>
       /\ Len(pages) = Len(doc.pages)
       /\ \A k \in DOMAIN doc.pages : pages[k] \in {doc.pages[k].text, doc.pages[k].ocr_text}

\* OCR raises on the first of three pages; the second is read by OCR and
\* the third has a text layer
C19_Witness ==
  /\ pc = "done_extract_text"
  /\ OCR_AVAILABLE
  /\ Len(doc.pages) = 3
  /\ ShortPage(1) /\ doc.pages[1].ocr_raises
  /\ ShortPage(2) /\ ~doc.pages[2].ocr_raises
  /\ ~ShortPage(3)
  /\ pages = <<doc.pages[1].text, doc.pages[2].ocr_text, doc.pages[3].text>>

\* ------------------------------------------------------------------------
\* process_file as its caller sees it
\* ------------------------------------------------------------------------

\* C20: what process_file returns tells a document that could not be read
\* (extraction yields no pages) from one that is empty after cleaning: the
\* caller gets different values for the two, so it can tell them apart
\* without the console output.
C20_FailuresDistinct ==
  \A i \in DOMAIN calls, j \in DOMAIN calls :
    calls[i].exit = "return_no_text" /\ calls[j].exit = "empty"
      => calls[i].value # calls[j].value

\* ------------------------------------------------------------------------
\* The stages of process_file in time
\* ------------------------------------------------------------------------

\* The stage that comes before a stage
StageBefore == [citation |-> "extract", clean |-> "citation", format |-> "clean"]

\* C21: in both profiles the stages of one document never overlap and run
\* in the order extract, citation, clean, format: a stage that has started
\* returns before anything else starts, every stage but extract starts right
\* after the stage before it has returned for the same document, and the
\* stages of a document run when process_file has returned for all the
\* documents before it and for no other.
C21_StagesInOrder ==
  \A i \in DOMAIN trace :
    /\ trace[i].returned = trace[i].file - 1
    /\ trace[i].what = "return" =>
          i > 1 /\ trace[i - 1] = [trace[i] EXCEPT !.what = "start"]
    /\ trace[i].what = "start" =>
          /\ i < Len(trace) => trace[i + 1].what = "return"
          /\ IF trace[i].stage = "extract"
             THEN i = 1 \/ trace[i - 1].file < trace[i].file
             ELSE i > 1 /\ trace[i - 1] = [trace[i] EXCEPT !.what = "return",
                                                           !.stage = StageBefore[trace[i].stage]]

\* Threads at work: all four stages of the first document have run and the
\* second document is being extracted
C21_Witness ==
  /\ CURRENT_PROFILE = "normie"
  /\ Len(trace) > 8
  /\ trace[8] = [file |-> 1, stage |-> "format", what |-> "return", returned |-> 0]
  /\ trace[9].file = 2
  /\ \E t \in DOMAIN tasks : tasks[t].threaded /\ tasks[t].at = "running"

\* ------------------------------------------------------------------------
\* main's loop over the files
\* ------------------------------------------------------------------------

\* The paths process_file returned after writing, in the order of the calls
RECURSIVE WrittenPaths(_)
WrittenPaths(log) ==
  IF log = <<>> THEN <<>>
  ELSE WrittenPaths(SubSeq(log, 1, Len(log) - 1))
       \o (IF log[Len(log)].exit = "return_written" THEN log[Len(log)].value ELSE <<>>)

\* A file that yields nothing: it does not open, or nothing is left of it
\* after cleaning
Barren(file) ==
  ~file.opens \/ clean_document(extract_text(file, OCR_AVAILABLE)) = ""

\* C22: with several files, process_file is called once for every file, in
\* order; a file that does not open or is empty after cleaning gives no
\* output file, and the loop goes on to the files after it; output_files
\* holds exactly the files written, in the order they were processed.
\* What a file yields is looked at when its call has just returned.
\* Going on: once a call has returned, main is back at the head of its loop,
\* where the next file, if there is one, is taken.
C22_BatchGoesOn ==
  /\ Len(calls) \in {file_num - 1, file_num} \cap (0..Len(pdf_files))
  /\ \A i \in DOMAIN calls :
       /\ calls[i].file = i
       /\ calls[i].exit = "return_written" <=> calls[i].value # <<>>
  /\ pc = "main" /\ calls # <<>> /\ Barren(pdf_files[Len(calls)])
       => calls[Len(calls)].value = <<>>
  /\ output_files = WrittenPaths(calls)
  /\ Len(calls) = file_num => pc = "main"

\* A file that is empty after cleaning, and the article after it written
C22_Witness ==
  /\ Len(calls) = 2
  /\ pdf_files[1].name = "notice"
  /\ calls[1].exit = "empty"
  /\ output_files = <<"article_stripped.txt">>

\* ------------------------------------------------------------------------
\* The document of three numbered pages
\* ------------------------------------------------------------------------

\* The body lines of a numbered page: all but its last line and its footers
BodyOf(page) ==
  LET lines == SplitLines(page)
      IsBody(l) == l # DukeFooter
  IN  SelectSeq(SubSeq(lines, 1, Len(lines) - 1), IsBody)

\* The non-blank lines of a text
Printed(text) ==
  LET Filled(l) == l # ""
  IN  SelectSeq(SplitLines(text), Filled)

\* C23: of a document of three pages that end in 12, 13 and 14 and hold
\* Duke download footers, clean_document returns the body lines and
\* nothing else, in their order: no footer and no closing page number is
\* left, and no body line is lost, a body line that reads like one of the
\* page numbers included, however many body lines the pages have.
C23_NumberedCleaned ==
  pc = "cleaned" =>
    Printed(cleaned_text) = BodyOf(pages[1]) \o BodyOf(pages[2]) \o BodyOf(pages[3])

\* ------------------------------------------------------------------------
\* The order of the pattern list
\* ------------------------------------------------------------------------

\* C24: what clean_page returns does not depend on the order of the pattern
\* list: with the list in any other order the same lines are dropped and
\* the same text is returned as with the list of the source, for every text
\* and removal set.
C24_OrderIndependent ==
  pc = "done_clean_page_in_order" =>
    cleaned_pages[1] = clean_page_in(SourceOrder, pages[1], removal)

\* A line two patterns hit, with the later of the two moved in front of the other
C24_Witness ==
  /\ pc = "done_clean_page_in_order"
  /\ pattern_order[23] = 24
  /\ pages = <<"Running Head\nDownloaded from https://read.dukeupress.edu/x by DUKE user">>
  /\ removal = {}
  /\ cleaned_pages = <<"Running Head">>

\* ------------------------------------------------------------------------
\* The title guess
\* ------------------------------------------------------------------------

\* A line the title guess is to take: 20 characters and more, no bare
\* number, an upper-case letter first, no comma, semicolon or hyphen last, no
\* phrase of the deny list, no pattern of the library
TitleLike(line) ==
  /\ Len(line) >= MinTitleLen
  /\ \E k \in 1..Len(line) : Char(line, k) \notin Digit
  /\ Char(line, 1) \in Upper
  /\ Char(line, Len(line)) \notin {",", ";", "-"}
  /\ \A k \in DOMAIN skip_patterns : ~ReSearch(skip_patterns[k], line)
  /\ ~LibraryHit(line)

\* C25: when neither the metadata nor the ProQuest parse sets a title,
\* extract_citation takes for the title the first of the first 10 non-blank
\* lines of the first page that has at least 20 characters, is no bare
\* number, starts with an upper-case letter (a digit or punctuation first
\* does not do), does not end in a comma, semicolon or hyphen and matches
\* neither a deny-list phrase nor a library pattern; with no such line the
\* title stays absent.
C25_TitleGuess ==
  pc = "done_extract_citation" /\ ~HasField(Accepted.title) /\ ProQuestAuthors = {} =>
    LET lines == NonBlankLines(pages[1])
        firsts == SubSeq(lines, 1, Min2(TitleLines, Len(lines)))
        fit == {k \in DOMAIN firsts : TitleLike(firsts[k])}
    IN  citation.title = IF fit = {} THEN <<>> ELSE <<firsts[SetMin(fit)]>>

\* ------------------------------------------------------------------------
\* The journal header
\* ------------------------------------------------------------------------

\* C26: with no source set before, a first-page line in capitals that
\* contains "JOURNAL" becomes the source when it has 15 to 100 characters,
\* 15 and 100 included, and at no other length; other lines never do.
C26_JournalLength ==
  pc = "done_extract_citation" =>
    LET line == pages[1]
    IN  citation.source = <<line>>
          <=> /\ StrIsUpper(line)
              /\ Contains(line, "JOURNAL")
              /\ 15 <= Len(line)
              /\ Len(line) <= 100

\* ------------------------------------------------------------------------
\* Documents of fewer than three pages
\* ------------------------------------------------------------------------

\* The lines of a page that no pattern of the library hits
Unpatterned(page) ==
  LET Free(l) == ~LibraryHit(l)
  IN  Join(SelectSeq(SplitLines(page), Free), "\n")

\* C27: of a document that has fewer than 3 pages once the front matter is
\* taken off, detect_repeating_lines and detect_page_numbers both return the
\* empty set, and clean_document removes from each page the lines a library
\* pattern hits and no other.
C27_ShortDocument ==
  pc = "cleaned" /\ Len(pages) - front_matter_count \in 1..2 =>
    /\ repeating_lines = {}
    /\ page_numbers = {}
    /\ removal = {}
    /\ \A k \in DOMAIN cleaned_pages :
         cleaned_pages[k] = Unpatterned(pages[front_matter_count + k])
    /\ Len(cleaned_pages) = Len(pages) - front_matter_count

\* Two pages of rising numbers after the front matter: candidates enough,
\* and no number is taken for a page number
C27_Witness ==
  /\ pc = "cleaned"
  /\ pages = <<"Recommended Citation\nSmith 2020", "1\n2\n3", "2\n3\n4">>
  /\ front_matter_count = 1
  /\ Len(candidates) >= 3
  /\ cleaned_pages = <<"1\n2\n3", "2\n3\n4">>

\* ------------------------------------------------------------------------
\* Blank lines and the removal set
\* ------------------------------------------------------------------------

\* The blank and white-space lines of a text, in their order
Breaks(text) ==
  LET White(l) == Strip(l) = ""
  IN  SelectSeq(SplitLines(text), White)

\* C28: the set of lines to remove that clean_document builds never holds
\* the empty string and holds trimmed strings only, so clean_page drops no
\* blank and no white-space line: every such line of a page is in the
\* cleaned page.
C28_BreaksSurvive ==
  pc = "cleaned" =>
    /\ removal = repeating_lines \cup page_numbers
    /\ \A line \in removal : line # "" /\ Strip(line) = line
    /\ \A k \in DOMAIN cleaned_pages :
         Breaks(cleaned_pages[k]) = Breaks(pages[front_matter_count + k])

\* The head and the three page numbers are removed, the white lines stay
C28_Witness ==
  /\ pc = "cleaned"
  /\ removal = {"head", "12", "13", "14"}
  /\ pages[1] = "Head\n \t\na\nb\n\nc\nd\ne\n 12 "
  /\ cleaned_pages[1] = " \t\na\nb\n\nc\nd\ne"

\* ------------------------------------------------------------------------
\* format_for_tts twice
\* ------------------------------------------------------------------------

\* C29 as stated: format_for_tts applied to its own result returns it
\* unchanged, with faithful true and with faithful false alike.
C29_FormatIdempotentBoth ==
  pc = "done_format_again" => formatted_text = pages[1]

\* C29: with faithful true, format_for_tts applied to its own result
\* returns it unchanged: a heading marked in the first pass ends in a period
\* and is not marked again.  (With faithful false an expansion can turn a
\* line into a heading for the second pass.)
C29_FormatIdempotent ==
  pc = "done_format_again" /\ faithful => formatted_text = pages[1]

\* A heading after a line, marked once and left alone the second time
C29_Witness ==
  /\ pc = "done_format_again"
  /\ faithful
  /\ pages = <<"a\n\nABCD.">>
  /\ formatted_lines = <<"a", "", "ABCD.">>
  /\ formatted_text = "a\n\nABCD."

\* ------------------------------------------------------------------------
\* Versions
\* ------------------------------------------------------------------------

\* The parts of a dotted version, as numbers
RECURSIVE PartsOf(_)
PartsOf(version) ==
  LET dots == {i \in 1..Len(version) : Char(version, i) = "."}
  IN  IF dots = {} THEN <<StrToInt(version)>>
      ELSE <<StrToInt(SubSeq(version, 1, SetMin(dots) - 1))>>
           \o PartsOf(SubSeq(version, SetMin(dots) + 1, Len(version)))

\* Version a is newer than version b: at the first part where they differ,
\* a has the greater number
Newer(a, b) ==
  \E k \in 1..3 :
    /\ PartsOf(a)[k] > PartsOf(b)[k]
    /\ \A j \in 1..(k - 1) : PartsOf(a)[j] = PartsOf(b)[j]

\* C30: check_for_updates announces an update exactly when the version of
\* the latest release is newer than the running VERSION, part by part as
\* numbers: the comparison of the two strings gives what the comparison of
\* their parts gives (1.10.0 is newer than 1.9.0, and no version is newer
\* than itself).
C30_UpdateIffNewer ==
  pc = "done_check_for_updates" /\ ~release.fails /\ latest_version # "" =>
    (update_offered <=> Newer(latest_version, VERSION))

====
